---- MODULE Spec2Model ----
(***************************************************************************)
(* Bulk video generation orchestrator: token pool (server/storage.ts),     *)
(* plan enforcement (server/planEnforcement.ts), submission queue          *)
(* (server/bulkQueue.ts), polling coordinator                              *)
(* (server/pollingCoordinator.ts) and the HTTP entry points (routes).      *)
(*                                                                         *)
(* Time is counted in minutes: Date.now() / 60000.                         *)
(***************************************************************************)
EXTENDS Integers, Sequences, FiniteSets, TLC

(***************************************************************************)
(* Program constants                                                       *)
(***************************************************************************)
BATCH_SIZE == 100
ERROR_THRESHOLD == 10
ERROR_WINDOW_MS == 20
COOLDOWN_DURATION_MS == 120

(***************************************************************************)
(* Bounds of the model                                                     *)
(***************************************************************************)
NumTokens == 2
NumTx == 2
MaxDispenses == 3
MaxErrorCalls == 1
MaxNow == 121

Tokens == 1..NumTokens
Txs == 1..NumTx
TickSteps == {60, 120}
InitBatchCounts == {0, 99}

VARIABLES
  now,                  \* Date.now(), minutes
  apiTokens,            \* api_tokens rows, keyed by creation order
  lastUsedTokenIndex,   \* token_settings.lastUsedTokenIndex
  lruOrder,             \* tokens with a lastUsedAt, least recently used first
  tokenErrorTracking,   \* Map tokenId -> error timestamps (absent = << >>)
  tokenCooldowns,       \* Map tokenId -> cooldown end (absent = 0)
  tx,                   \* getCurrentBatchToken transactions in flight
  dispenses,            \* number of getCurrentBatchToken calls started
  errorCalls,           \* number of recordTokenError calls made
  tenthErrorAt,         \* when a token's recent errors last reached ERROR_THRESHOLD (observation)
  lastDispense,         \* the token the last dispense returned (observation)
  replaced,             \* the replaceAllTokens calls made and the list of the last one (observation)
  today,                \* the calendar date of new Date(), a day number
  user,                 \* one users row
  userRows,             \* number of video_history rows of the user
  req,                  \* requests of the user in flight
  requests,             \* number of requests started
  planChanges,          \* number of plan changes made by the admin
  lastCleanupDate,      \* lastCleanupDate of the daily cleanup job
  lastResponse,         \* the last response sent (observation)
  planCheck,            \* the last call of a plan check and what it returned (observation)
  retry,                \* a withRetry call: its position and the outcomes of its invocations
  interval,             \* setInterval(checkAndCleanupHistory, 60000): its last tick and the resets run
  videoHistory,         \* video_history rows of the jobs
  bulkQueue,            \* bulkQueue of bulkQueue.ts
  isProcessing,         \* isProcessing of bulkQueue.ts
  pq,                   \* processQueue: its position and the chunk in flight
  sv,                   \* processSingleVideo / handleVideoFailure per job
  retryTimers,          \* jobs with a pending setTimeout(RETRY_DELAY_MS)
  submitAttempts,       \* upstream submit attempts per job (observation)
  envKey,               \* whether process.env.VEO3_API_KEY is set
  delayOverride,        \* job -> the addToQueue call that enqueued it and its delaySeconds
  operation,            \* the upstream operation of each bulk job
  pollingQueue,         \* pollingQueue of pollingCoordinator.ts
  activeWorkers,        \* activeWorkers of pollingCoordinator.ts
  worker,               \* processJob per job
  regen,                \* POST /api/regenerate-video per job
  statusCheck,          \* POST /api/check-video-status requests awaiting an upload
  cloudinaryUploadCache, \* cloudinaryUploadCache of the routes, per sceneId
  uploads,              \* uploads started and hosted URLs produced per sceneId
  routeCalls            \* number of regenerate and check-video-status requests

tokenVars == <<apiTokens, lastUsedTokenIndex, lruOrder, tokenErrorTracking,
               tokenCooldowns, tx, dispenses, errorCalls, tenthErrorAt, lastDispense,
               replaced>>

planVars == <<today, user, userRows, req, requests, planChanges,
              lastCleanupDate, lastResponse, planCheck, retry, interval>>

queueVars == <<bulkQueue, isProcessing, pq, sv, retryTimers, submitAttempts,
               envKey, delayOverride>>

pollVars == <<operation, pollingQueue, activeWorkers, worker, regen, statusCheck,
              cloudinaryUploadCache, uploads, routeCalls>>

\* what the dispenses and the error tracking of the token pool leave alone
notTokenVars == <<planVars, videoHistory, queueVars, pollVars, replaced>>

\* what the routes of plan enforcement leave alone
notPlanVars == <<now, tokenVars, queueVars, pollVars, planCheck, retry, interval>>

vars == <<now, tokenVars, planVars, videoHistory, queueVars, pollVars>>

None == 0

(***************************************************************************)
(* Helpers on sequences                                                    *)
(***************************************************************************)
RECURSIVE FilterSeq(_, _)
FilterSeq(s, keep) ==
  IF s = << >> THEN << >>
  ELSE IF Head(s) \in keep THEN <<Head(s)>> \o FilterSeq(Tail(s), keep)
       ELSE FilterSeq(Tail(s), keep)

RECURSIVE RecentErrors(_, _)
\* errors.filter(timestamp => now - timestamp < ERROR_WINDOW_MS)
RecentErrors(errors, t) ==
  IF errors = << >> THEN << >>
  ELSE IF t - Head(errors) < ERROR_WINDOW_MS
       THEN <<Head(errors)>> \o RecentErrors(Tail(errors), t)
       ELSE RecentErrors(Tail(errors), t)

SeqOfRange(lo, hi) == [i \in 1..(hi - lo + 1) |-> lo + i - 1]

(***************************************************************************)
(* Token pool: cooldown and error tracking                                 *)
(***************************************************************************)
\* isTokenInCooldown: the value returned
IsTokenInCooldown(cooldowns, t, time) ==
  cooldowns[t] # 0 /\ time < cooldowns[t]

\* isTokenInCooldown: the entries it deletes when a cooldown has expired
CooldownExpired(cooldowns, t, time) ==
  cooldowns[t] # 0 /\ time >= cooldowns[t]

\* the two maps after isTokenInCooldown has been called on every token of S
CooldownsAfterCheck(cooldowns, S, time) ==
  [t \in Tokens |-> IF t \in S /\ CooldownExpired(cooldowns, t, time)
                    THEN 0 ELSE cooldowns[t]]

ErrorsAfterCheck(errors, cooldowns, S, time) ==
  [t \in Tokens |-> IF t \in S /\ CooldownExpired(cooldowns, t, time)
                    THEN << >> ELSE errors[t]]

\* getRecentErrorCount
GetRecentErrorCount(errors, t, time) == Len(RecentErrors(errors[t], time))

\* recordTokenError(tokenId)
RecordedErrors(errors, t, time) ==
  [errors EXCEPT ![t] = RecentErrors(Append(errors[t], time), time)]

\* the cooldown set only above the threshold
RecordedCooldowns_AboveThreshold(errors, cooldowns, t, time) ==
  IF Len(RecordedErrors(errors, t, time)[t]) > ERROR_THRESHOLD
  THEN [cooldowns EXCEPT ![t] = time + COOLDOWN_DURATION_MS]
  ELSE cooldowns

RecordedCooldowns(errors, cooldowns, t, time) ==
  IF Len(RecordedErrors(errors, t, time)[t]) >= ERROR_THRESHOLD
  THEN [cooldowns EXCEPT ![t] = time + COOLDOWN_DURATION_MS]
  ELSE cooldowns

RecordTokenError(t) ==
  /\ tokenErrorTracking' = RecordedErrors(tokenErrorTracking, t, now)
  /\ tokenCooldowns' = RecordedCooldowns(tokenErrorTracking, tokenCooldowns, t, now)
  /\ errorCalls' = errorCalls + 1
  /\ tenthErrorAt' =
       IF Len(RecordedErrors(tokenErrorTracking, t, now)[t]) = ERROR_THRESHOLD
       THEN [tenthErrorAt EXCEPT ![t] = now] ELSE tenthErrorAt
  /\ UNCHANGED <<notTokenVars, now, apiTokens, lastUsedTokenIndex, lruOrder, tx, dispenses,
                 lastDispense>>

(***************************************************************************)
(* Token pool: queries                                                     *)
(***************************************************************************)
\* an api_tokens row; token is the credential (None: the row does not exist)
TokenRow(token, label, isActive, count) ==
  [token |-> token, label |-> label, isActive |-> isActive,
   currentBatchCount |-> count, totalGenerated |-> count]
NoTokenRow == TokenRow(None, 0, FALSE, 0)

\* select ... where isActive = true order by createdAt
ActiveTokens == FilterSeq(SeqOfRange(1, NumTokens),
                          {t \in Tokens : apiTokens[t].isActive})

SeqRange(s) == {s[i] : i \in 1..Len(s)}

\* allTokens.filter(token => !this.isTokenInCooldown(token.id))
AvailableTokens(all) ==
  FilterSeq(all, {t \in Tokens : ~IsTokenInCooldown(tokenCooldowns, t, now)})

\* lastUsedAt = now for token t
Touch(order, t) == Append(FilterSeq(order, Tokens \ {t}), t)

(***************************************************************************)
(* Token pool: getCurrentBatchToken, one database transaction.             *)
(* Its awaits are the steps: read settings; read the active tokens and     *)
(* filter them; SELECT ... FOR UPDATE of the current token; on a rollover  *)
(* SELECT ... FOR UPDATE of the next token; commit (the writes become      *)
(* visible and the row locks are released).                                *)
(***************************************************************************)
IdleTx == [pc |-> "idle", currentIndex |-> 0, availableTokens |-> << >>,
           cur |-> None, next |-> None, nextIndex |-> 0, rollover |-> FALSE]

\* what a dispense returned: the token (None for undefined), whether
\* tokenCooldowns holds an unexpired cooldown for it at that moment, and whether
\* it had already served a full batch (currentBatchCount >= BATCH_SIZE before
\* the dispense) although the dispense had filtered more than one available
\* token and another token is still available when it returns
Returned(op, t, full) ==
  [op |-> op, token |-> t,
   inCooldown |-> t # None /\ IsTokenInCooldown(tokenCooldowns, IF t = None THEN 1 ELSE t, now),
   full |-> full]

\* row locks a transaction holds
LocksHeld(x) ==
  IF tx[x].pc = "lockNext" THEN {tx[x].cur}
  ELSE IF tx[x].pc = "commit"
       THEN IF tx[x].rollover THEN {tx[x].cur, tx[x].next} ELSE {tx[x].cur}
       ELSE {}

LockFree(x, t) == \A y \in Txs \ {x} : t \notin LocksHeld(y)

\* const [settings] = await tx.select().from(tokenSettings).limit(1)
TxBegin(x) ==
  /\ tx[x].pc = "idle"
  /\ \A y \in Txs : y < x => tx[y].pc # "idle"
  /\ dispenses < MaxDispenses
  /\ dispenses' = dispenses + 1
  /\ tx' = [tx EXCEPT ![x] = [IdleTx EXCEPT !.pc = "settings",
                                            !.currentIndex = lastUsedTokenIndex]]
  /\ UNCHANGED <<notTokenVars, now, apiTokens, lastUsedTokenIndex, lruOrder,
                 tokenErrorTracking, tokenCooldowns, errorCalls, tenthErrorAt, lastDispense>>

\* tokenIndex = currentIndex % availableTokens.length
TokenIndex(currentIndex, available) == currentIndex % Len(available)

\* nextIndex = (currentIndex + 1) % availableTokens.length
NextIndex(currentIndex, available) == (currentIndex + 1) % Len(available)

\* allTokens = await tx.select()...; availableTokens = allTokens.filter(...)
TxFilter(x) ==
  /\ tx[x].pc = "settings"
  /\ LET all == ActiveTokens
         available == AvailableTokens(all)
     IN /\ tokenCooldowns' = CooldownsAfterCheck(tokenCooldowns, SeqRange(all), now)
        /\ tokenErrorTracking' =
             ErrorsAfterCheck(tokenErrorTracking, tokenCooldowns, SeqRange(all), now)
        /\ IF Len(all) = 0 \/ Len(available) = 0
           THEN /\ tx' = [tx EXCEPT ![x] = IdleTx]
                /\ lastDispense' = Returned("batch", None, FALSE)
           ELSE tx' = [tx EXCEPT
                  ![x].pc = "lockCur",
                  ![x].availableTokens = available,
                  ![x].cur = available[TokenIndex(tx[x].currentIndex, available) + 1]]
                /\ UNCHANGED lastDispense
  /\ UNCHANGED <<notTokenVars, now, apiTokens, lastUsedTokenIndex, lruOrder, dispenses,
                 errorCalls, tenthErrorAt>>

\* if (currentToken.currentBatchCount >= BATCH_SIZE)
BatchComplete(count) == count >= BATCH_SIZE

\* select().from(apiTokens).where(id = currentTokenId).for('update')
TxLockCur(x) ==
  /\ tx[x].pc = "lockCur"
  /\ LockFree(x, tx[x].cur)
  /\ IF apiTokens[tx[x].cur].token = None
     THEN \* if (!currentToken) return undefined
          /\ tx' = [tx EXCEPT ![x] = IdleTx]
          /\ lastDispense' = Returned("batch", None, FALSE)
     ELSE /\ IF BatchComplete(apiTokens[tx[x].cur].currentBatchCount)
             THEN tx' = [tx EXCEPT
                    ![x].pc = "lockNext",
                    ![x].rollover = TRUE,
                    ![x].nextIndex = NextIndex(tx[x].currentIndex, tx[x].availableTokens),
                    ![x].next = tx[x].availableTokens[
                                  NextIndex(tx[x].currentIndex, tx[x].availableTokens) + 1]]
             ELSE tx' = [tx EXCEPT ![x].pc = "commit", ![x].rollover = FALSE]
          /\ UNCHANGED lastDispense
  /\ UNCHANGED <<notTokenVars, now, apiTokens, lastUsedTokenIndex, lruOrder,
                 tokenErrorTracking, tokenCooldowns, dispenses, errorCalls, tenthErrorAt>>

\* set currentBatchCount = currentBatchCount + 1, totalGenerated = totalGenerated + 1
Incremented(rows, t) ==
  [rows EXCEPT ![t].currentBatchCount = @ + 1, ![t].totalGenerated = @ + 1]

\* set({ currentBatchCount: 0 }).where(id = currentToken.id)
ResetBatch(rows, t) == [rows EXCEPT ![t].currentBatchCount = 0]

\* select().from(apiTokens).where(id = nextTokenId).for('update')
TxLockNext(x) ==
  /\ tx[x].pc = "lockNext"
  /\ LockFree(x, tx[x].next)
  /\ IF apiTokens[tx[x].next].token = None
     THEN \* if (!nextToken) return undefined: the callback returns normally,
          \* the transaction commits the reset of the current token issued before
          /\ apiTokens' = ResetBatch(apiTokens, tx[x].cur)
          /\ tx' = [tx EXCEPT ![x] = IdleTx]
          /\ lastDispense' = Returned("batch", None, FALSE)
     ELSE /\ tx' = [tx EXCEPT ![x].pc = "commit"]
          /\ UNCHANGED <<apiTokens, lastDispense>>
  /\ UNCHANGED <<notTokenVars, now, lastUsedTokenIndex, lruOrder,
                 tokenErrorTracking, tokenCooldowns, dispenses, errorCalls, tenthErrorAt>>

\* the updates of a rollover counting the dispense on the token that was reset
RowsAfterDispense_CountsCurrent(rows, cur, next, rollover) ==
  IF rollover THEN Incremented(ResetBatch(rows, cur), cur)
  ELSE Incremented(rows, cur)

\* the rows after the transaction's updates
RowsAfterDispense(rows, cur, next, rollover) ==
  IF rollover THEN Incremented(ResetBatch(rows, cur), next)
  ELSE Incremented(rows, cur)

\* commit: the updates of the transaction take effect, the token is returned
TxCommit(x) ==
  /\ tx[x].pc = "commit"
  /\ LET res == IF tx[x].rollover THEN tx[x].next ELSE tx[x].cur
     IN /\ apiTokens' = RowsAfterDispense(apiTokens, tx[x].cur, tx[x].next,
                                          tx[x].rollover)
        /\ lastUsedTokenIndex' =
             IF tx[x].rollover THEN tx[x].nextIndex ELSE lastUsedTokenIndex
        /\ lruOrder' = Touch(lruOrder, res)
        /\ tx' = [tx EXCEPT ![x] = IdleTx]
        /\ lastDispense' = Returned("batch", res,
               /\ apiTokens[res].currentBatchCount >= BATCH_SIZE
               /\ Len(tx[x].availableTokens) > 1
               /\ \E o \in SeqRange(AvailableTokens(ActiveTokens)) : o # res)
  /\ UNCHANGED <<notTokenVars, now, tokenErrorTracking, tokenCooldowns, dispenses, errorCalls, tenthErrorAt>>

(***************************************************************************)
(* Token pool: getNextRotationToken, getTokenByIndex, updateTokenUsage     *)
(***************************************************************************)
Perms(S) == {s \in [1..Cardinality(S) -> S] :
               \A i, j \in 1..Cardinality(S) : i # j => s[i] # s[j]}

\* orderBy(apiTokens.lastUsedAt): rows with a lastUsedAt in ascending order,
\* then the rows whose lastUsedAt is null, in an order the database chooses
RotationOrders ==
  LET active == {t \in Tokens : apiTokens[t].isActive}
      used == FilterSeq(lruOrder, active)
  IN {used \o p : p \in Perms(active \ SeqRange(used))}

\* the test of the loop body of getNextRotationToken for one token
RotationEligible(t) ==
  /\ ~IsTokenInCooldown(tokenCooldowns, t, now)
  /\ GetRecentErrorCount(
       ErrorsAfterCheck(tokenErrorTracking, tokenCooldowns, {t}, now), t, now)
       < ERROR_THRESHOLD - 1

\* index of the token the loop returns, 0 when it returns undefined
FirstEligible(ord) ==
  IF \E i \in 1..Len(ord) : RotationEligible(ord[i])
  THEN CHOOSE i \in 1..Len(ord) :
         /\ RotationEligible(ord[i])
         /\ \A j \in 1..(i - 1) : ~RotationEligible(ord[j])
  ELSE 0

GetNextRotationToken ==
  \E ord \in RotationOrders :
    LET k == FirstEligible(ord)
        visited == IF k = 0 THEN SeqRange(ord) ELSE {ord[i] : i \in 1..k}
    IN /\ lastDispense' = Returned("next", IF k = 0 THEN None ELSE ord[k], FALSE)
       /\ tokenCooldowns' = CooldownsAfterCheck(tokenCooldowns, visited, now)
       /\ tokenErrorTracking' =
            ErrorsAfterCheck(tokenErrorTracking, tokenCooldowns, visited, now)
       /\ UNCHANGED <<notTokenVars, now, apiTokens, lastUsedTokenIndex, lruOrder, tx,
                      dispenses, errorCalls, tenthErrorAt>>

GetTokenByIndex(index) ==
  LET all == ActiveTokens
      available == AvailableTokens(all)
      sel == IF Len(available) = 0 THEN None
             ELSE available[(index % Len(available)) + 1]
  IN /\ lastDispense' = Returned("index", sel, FALSE)
     /\ tokenCooldowns' = CooldownsAfterCheck(tokenCooldowns, SeqRange(all), now)
     /\ tokenErrorTracking' =
          ErrorsAfterCheck(tokenErrorTracking, tokenCooldowns, SeqRange(all), now)
     /\ UNCHANGED <<notTokenVars, now, apiTokens, lastUsedTokenIndex, lruOrder, tx, dispenses,
                    errorCalls, tenthErrorAt>>

\* updateTokenUsage: lastUsedAt = now (requestCount, a display counter, is not modelled)
UpdateTokenUsage(t) ==
  /\ lruOrder # Touch(lruOrder, t)
  /\ lruOrder' = Touch(lruOrder, t)
  /\ UNCHANGED <<notTokenVars, now, apiTokens, lastUsedTokenIndex, tokenErrorTracking,
                 tokenCooldowns, tx, dispenses, errorCalls, tenthErrorAt, lastDispense>>

\* the clock
Tick(d) ==
  /\ now + d <= MaxNow
  /\ \A x \in Txs : tx[x].pc = "idle"   \* a transaction lasts far less than a step of the clock
  /\ now' = now + d
  /\ UNCHANGED <<notTokenVars, tokenVars>>

(***************************************************************************)
(* video_history rows (server/storage.ts)                                  *)
(***************************************************************************)
NumJobs == 21
Jobs == 1..NumJobs

\* the user who owns the jobs
UserId == "u1"

\* the JavaScript value undefined
Undefined == "undefined"

\* an object passed where the userId string is expected
ObjectAsUserId == "[object Object]"

NoUrl == [host |-> "none", job |-> 0, scene |-> "none", n |-> 0]

\* an errorMessage: its wording (kind) and the number it quotes
Message(kind, n) == [kind |-> kind, n |-> n]

\* errorMessage is null, or the parameter is undefined
NoMessage == Message("none", 0)

\* updatedAt: when an update last set updatedAt = now() (None for a row no
\* update has touched)
NoRow == [exists |-> FALSE, userId |-> Undefined, status |-> "none",
          videoUrl |-> NoUrl, retryCount |-> 0, errorMessage |-> NoMessage,
          tokenUsed |-> None, updatedAt |-> None]

\* addVideoHistory({ userId, status, ... })
NewRow(userId, status) ==
  [exists |-> TRUE, userId |-> userId, status |-> status, videoUrl |-> NoUrl,
   retryCount |-> 0, errorMessage |-> NoMessage, tokenUsed |-> None,
   updatedAt |-> None]

\* no fields object (the parameter is undefined): .set({ ...fields }) sets nothing
NoFields == << >>

\* .set({ ...fields })
Updated(row, fields) ==
  [f \in DOMAIN row |-> IF f \in DOMAIN fields THEN fields[f] ELSE row[f]]

\* updateVideoHistoryStatus(videoId, userId, status, videoUrl?, errorMessage?)
UpdateVideoHistoryStatus(rows, videoId, userId, status, videoUrl, errorMessage) ==
  LET row == rows[videoId]
  IN IF row.exists /\ row.userId = userId
     THEN [rows EXCEPT ![videoId] =
             [row EXCEPT !.status = status,
                         !.videoUrl = IF videoUrl # NoUrl THEN videoUrl ELSE @,
                         !.errorMessage =
                            IF errorMessage # NoMessage THEN errorMessage ELSE @,
                         !.updatedAt = now]]
     ELSE rows

\* updateVideoHistoryFields(videoId, userId, fields)
UpdateVideoHistoryFields(rows, videoId, userId, fields) ==
  LET row == rows[videoId]
      matches == IF userId # Undefined
                 THEN row.exists /\ row.userId = userId
                 ELSE row.exists
  IN IF matches
     THEN [rows EXCEPT ![videoId] = [Updated(row, fields) EXCEPT !.updatedAt = now]]
     ELSE rows

\* the errorMessage of a failed submission / of an operation the upstream
\* service reports as failed
SubmitError == Message("submit error", 0)
UpstreamError == Message("upstream error", 0)

\* clearAllVideoHistory()
ClearAllVideoHistory(rows) == [j \in DOMAIN rows |-> NoRow]

IsTerminal(status) == status \in {"completed", "failed"}

(***************************************************************************)
(* Plan enforcement (server/planEnforcement.ts)                            *)
(***************************************************************************)
PlanTypes == {"free", "scale", "empire"}

\* PLAN_CONFIGS[planType].dailyVideoLimit
DailyVideoLimit(planType) ==
  CASE planType = "free" -> 0
    [] planType = "scale" -> 1000
    [] planType = "empire" -> 2000

\* PLAN_CONFIGS[planType].allowedTools
AllowedTools(planType) ==
  CASE planType = "free" -> {"veo"}
    [] planType = "scale" -> {"veo", "bulk"}
    [] planType = "empire" -> {"veo", "bulk", "script", "textToImage", "imageToVideo"}

\* PLAN_CONFIGS[planType].bulkGeneration.maxPrompts
MaxPrompts(planType) ==
  CASE planType = "free" -> 0
    [] planType = "scale" -> 50
    [] planType = "empire" -> 100

\* expiryDate.setDate(expiryDate.getDate() + 10)
PLAN_DAYS == 10

\* z.array(...).min(1).max(100) of the bulk-generate schema
MAX_BULK_PROMPTS == 100

\* isPlanExpired with the comparison of the two dates reversed
IsPlanExpired_Reversed(u, date) ==
  IF u.isAdmin THEN FALSE
  ELSE IF u.planType = "free" THEN FALSE
  ELSE IF u.planExpiry # None THEN date < u.planExpiry
  ELSE FALSE

IsPlanExpired(u, date) ==
  IF u.isAdmin THEN FALSE
  ELSE IF u.planType = "free" THEN FALSE
  ELSE IF u.planExpiry # None THEN date > u.planExpiry
  ELSE FALSE

HasReachedDailyLimit(u) ==
  IF u.isAdmin THEN FALSE
  ELSE IF u.planType \notin PlanTypes THEN TRUE
  ELSE u.dailyVideoCount >= DailyVideoLimit(u.planType)

\* Math.max(0, remaining); Infinity for an admin
Infinity == 1000000

GetRemainingVideos(u) ==
  IF u.isAdmin THEN Infinity
  ELSE IF u.planType \notin PlanTypes THEN 0
  ELSE IF DailyVideoLimit(u.planType) - u.dailyVideoCount > 0
       THEN DailyVideoLimit(u.planType) - u.dailyVideoCount
       ELSE 0

\* PLAN_CONFIGS[planType].bulkGeneration.delaySeconds
DelaySeconds(planType) ==
  CASE planType = "free" -> 0
    [] planType = "scale" -> 30
    [] planType = "empire" -> 10

\* PLAN_CONFIGS[planType].bulkGeneration.maxBatch
MaxBatch(planType) ==
  CASE planType = "free" -> 0
    [] planType = "scale" -> 7
    [] planType = "empire" -> 10

\* PlanCheckResult { allowed, reason?, remainingVideos? }; raised: the call
\* threw instead of returning
NoRemaining == -1
Allowed == [allowed |-> TRUE, reason |-> "none", remainingVideos |-> NoRemaining,
            raised |-> FALSE]
AllowedWith(remaining) == [Allowed EXCEPT !.remainingVideos = remaining]
Denied(why) == [allowed |-> FALSE, reason |-> why, remainingVideos |-> NoRemaining,
                raised |-> FALSE]
\* config.dailyVideoLimit of an undefined config
TypeError == [allowed |-> FALSE, reason |-> "none", remainingVideos |-> NoRemaining,
              raised |-> TRUE]

CanAccessTool(u, tool, date) ==
  IF u.isAdmin THEN Allowed
  ELSE IF IsPlanExpired(u, date) THEN Denied("expired")
  ELSE IF u.planType \notin PlanTypes THEN Denied("invalidPlan")
  ELSE IF tool \notin AllowedTools(u.planType) THEN Denied("tool")
  ELSE Allowed

CanGenerateVideo(u, date) ==
  IF u.isAdmin THEN Allowed
  ELSE IF IsPlanExpired(u, date) THEN Denied("expired")
  ELSE IF HasReachedDailyLimit(u)
       THEN IF u.planType \notin PlanTypes THEN TypeError ELSE Denied("dailyLimit")
  ELSE AllowedWith(GetRemainingVideos(u))

\* canBulkGenerate without the check of the remaining videos
CanBulkGenerate_NoQuota(u, videoCount, date) ==
  IF u.isAdmin THEN Allowed
  ELSE IF ~CanAccessTool(u, "bulk", date).allowed THEN CanAccessTool(u, "bulk", date)
  ELSE IF videoCount > MaxPrompts(u.planType) THEN Denied("maxPrompts")
  ELSE AllowedWith(GetRemainingVideos(u))

CanBulkGenerate(u, videoCount, date) ==
  IF u.isAdmin THEN Allowed
  ELSE IF ~CanAccessTool(u, "bulk", date).allowed THEN CanAccessTool(u, "bulk", date)
  ELSE IF videoCount > MaxPrompts(u.planType) THEN Denied("maxPrompts")
  ELSE IF videoCount > GetRemainingVideos(u) THEN Denied("dailyLimit")
  ELSE AllowedWith(GetRemainingVideos(u))

BulkGeneration(planType) ==
  [maxBatch |-> MaxBatch(planType), delaySeconds |-> DelaySeconds(planType),
   maxPrompts |-> MaxPrompts(planType)]

\* getBatchConfig that looks at the plan type only
GetBatchConfig_ByPlan(u) ==
  IF u.planType \notin PlanTypes THEN [maxBatch |-> 0, delaySeconds |-> 0]
  ELSE BulkGeneration(u.planType)

GetBatchConfig(u) ==
  IF u.isAdmin THEN BulkGeneration("empire")
  ELSE IF u.planType \notin PlanTypes THEN [maxBatch |-> 0, delaySeconds |-> 0]
  ELSE BulkGeneration(u.planType)

(***************************************************************************)
(* Submission entry points (routes) and plan administration                *)
(***************************************************************************)
NumReq == 2
MaxRequests == 2
MaxPlanChanges == 1
MaxDay == 12

ReqSlots == 1..NumReq
BulkSizes == {1, 2}
HistoryStatuses == {"completed", "failed"}
FirstDay == PLAN_DAYS + 1

NoUser == [isAdmin |-> FALSE, planType |-> "free", planExpiry |-> None,
           dailyVideoCount |-> 0, dailyResetDate |-> 0]

IdleReq == [pc |-> "idle", kind |-> "none", user |-> NoUser, n |-> 0, i |-> 0,
            status |-> "none", expired |-> FALSE, rows |-> 0, incs |-> 0]

\* the user row read by the request holds a paid plan whose expiry is in the past
PlanExpiryInPast(u, date) ==
  /\ ~u.isAdmin
  /\ u.planType # "free"
  /\ u.planExpiry # None
  /\ u.planExpiry < date

\* const user = await storage.getUser(userId)
GetUser(r, kind, n, st) ==
  /\ req[r].pc = "idle"
  /\ \A q \in ReqSlots : q < r => req[q].pc # "idle"
  /\ requests < MaxRequests
  /\ requests' = requests + 1
  /\ req' = [req EXCEPT ![r] = [IdleReq EXCEPT !.pc = "check", !.kind = kind,
                                  !.user = user, !.n = n, !.status = st,
                                  !.expired = PlanExpiryInPast(user, today)]]
  /\ UNCHANGED <<notPlanVars, videoHistory, today, user, userRows, planChanges,
                 lastCleanupDate, lastResponse>>

\* res.status(code).json(...): the request ends
\* (wrote: the request created a video_history row or incremented the count)
Respond(r, code, rows, incs) ==
  /\ lastResponse' = [kind |-> req[r].kind, code |-> code,
                      expired |-> req[r].expired, wrote |-> rows + incs > 0]
  /\ req' = [req EXCEPT ![r] = IdleReq]

\* await storage.incrementDailyVideoCount(userId)
IncrementDailyVideoCount(u) == [u EXCEPT !.dailyVideoCount = @ + 1]

BulkGenerateGetUser(r, n) == GetUser(r, "bulk", n, "pending")

\* POST /api/bulk-generate: canBulkGenerate(user, prompts.length)
BulkGenerateCheck(r) ==
  /\ req[r].pc = "check" /\ req[r].kind = "bulk"
  /\ IF req[r].n < 1 \/ req[r].n > MAX_BULK_PROMPTS
     THEN Respond(r, 400, req[r].rows, req[r].incs)
     ELSE IF ~CanBulkGenerate(req[r].user, req[r].n, today).allowed
     THEN Respond(r, 403, req[r].rows, req[r].incs)
     ELSE /\ req' = [req EXCEPT ![r].pc = "addRows"]
          /\ UNCHANGED lastResponse
  /\ UNCHANGED <<notPlanVars, videoHistory, today, user, userRows, requests, planChanges,
                 lastCleanupDate>>

\* POST /api/bulk-generate: one addVideoHistory of the first loop
BulkGenerateAddRow(r) ==
  /\ req[r].pc = "addRows" /\ req[r].kind = "bulk"
  /\ userRows' = userRows + 1
  /\ req' = [req EXCEPT ![r].rows = @ + 1,
                        ![r].i = IF req[r].i + 1 = req[r].n THEN 0 ELSE @ + 1,
                        ![r].pc = IF req[r].i + 1 = req[r].n THEN "increment" ELSE @]
  /\ UNCHANGED <<notPlanVars, videoHistory, today, user, requests, planChanges,
                 lastCleanupDate, lastResponse>>

\* POST /api/bulk-generate: one incrementDailyVideoCount of the second loop;
\* after the last one addToQueue and res.json
BulkGenerateIncrement(r) ==
  /\ req[r].pc = "increment" /\ req[r].kind = "bulk"
  /\ user' = IncrementDailyVideoCount(user)
  /\ IF req[r].i + 1 = req[r].n
     THEN Respond(r, 200, req[r].rows, req[r].incs + 1)
     ELSE /\ req' = [req EXCEPT ![r].i = @ + 1, ![r].incs = @ + 1]
          /\ UNCHANGED lastResponse
  /\ UNCHANGED <<notPlanVars, videoHistory, today, userRows, requests, planChanges,
                 lastCleanupDate>>

VideoHistoryGetUser(r, st) == GetUser(r, "history", 1, st)

\* POST /api/video-history: canGenerateVideo(user)
VideoHistoryCheck(r) ==
  /\ req[r].pc = "check" /\ req[r].kind = "history"
  /\ IF ~CanGenerateVideo(req[r].user, today).allowed
     THEN Respond(r, 403, req[r].rows, req[r].incs)
     ELSE /\ req' = [req EXCEPT ![r].pc = "addRows"]
          /\ UNCHANGED lastResponse
  /\ UNCHANGED <<notPlanVars, videoHistory, today, user, userRows, requests, planChanges,
                 lastCleanupDate>>

\* POST /api/video-history: addVideoHistory
VideoHistoryAddRow(r) ==
  /\ req[r].pc = "addRows" /\ req[r].kind = "history"
  /\ userRows' = userRows + 1
  /\ IF req[r].status # "failed"
     THEN /\ req' = [req EXCEPT ![r].rows = @ + 1, ![r].pc = "increment"]
          /\ UNCHANGED lastResponse
     ELSE Respond(r, 200, req[r].rows + 1, req[r].incs)
  /\ UNCHANGED <<notPlanVars, videoHistory, today, user, requests, planChanges,
                 lastCleanupDate>>

\* POST /api/video-history: incrementDailyVideoCount and res.json
VideoHistoryIncrement(r) ==
  /\ req[r].pc = "increment" /\ req[r].kind = "history"
  /\ user' = IncrementDailyVideoCount(user)
  /\ Respond(r, 200, req[r].rows, req[r].incs + 1)
  /\ UNCHANGED <<notPlanVars, videoHistory, today, userRows, requests, planChanges,
                 lastCleanupDate>>

\* canAccessTool(user, tool) followed by canGenerateVideo(user)
ToolAndVideoCheck(u, tool, date) ==
  IF ~CanAccessTool(u, tool, date).allowed THEN CanAccessTool(u, tool, date)
  ELSE CanGenerateVideo(u, date)

GenerateVeoVideoGetUser(r) == GetUser(r, "veo", 1, "pending")

\* POST /api/generate-veo-video: the plan checks
GenerateVeoVideoCheck(r) ==
  /\ req[r].pc = "check" /\ req[r].kind = "veo"
  /\ IF ~ToolAndVideoCheck(req[r].user, "veo", today).allowed
     THEN Respond(r, 403, req[r].rows, req[r].incs)
     ELSE /\ req' = [req EXCEPT ![r].pc = "submit"]
          /\ UNCHANGED lastResponse
  /\ UNCHANGED <<notPlanVars, videoHistory, today, user, userRows, requests, planChanges,
                 lastCleanupDate>>

\* POST /api/generate-veo-video: the upstream submission succeeds or fails;
\* the route writes no video_history row and no daily count
GenerateVeoVideoSubmit(r, ok) ==
  /\ req[r].pc = "submit" /\ req[r].kind = "veo"
  /\ Respond(r, IF ok THEN 200 ELSE 500, req[r].rows, req[r].incs)
  /\ UNCHANGED <<notPlanVars, videoHistory, today, user, userRows, requests, planChanges,
                 lastCleanupDate>>

GenerateImageToVideoGetUser(r) == GetUser(r, "imageToVideo", 1, "pending")

\* POST /api/generate-image-to-video: the plan checks
GenerateImageToVideoCheck(r) ==
  /\ req[r].pc = "check" /\ req[r].kind = "imageToVideo"
  /\ IF ~ToolAndVideoCheck(req[r].user, "imageToVideo", today).allowed
     THEN Respond(r, 403, req[r].rows, req[r].incs)
     ELSE /\ req' = [req EXCEPT ![r].pc = "submit"]
          /\ UNCHANGED lastResponse
  /\ UNCHANGED <<notPlanVars, videoHistory, today, user, userRows, requests, planChanges,
                 lastCleanupDate>>

\* POST /api/generate-image-to-video: after a successful upstream submission
\* addVideoHistory (status pending); the daily count is not incremented
GenerateImageToVideoSubmit(r, ok) ==
  /\ req[r].pc = "submit" /\ req[r].kind = "imageToVideo"
  /\ userRows' = IF ok THEN userRows + 1 ELSE userRows
  /\ Respond(r, IF ok THEN 200 ELSE 500,
             IF ok THEN req[r].rows + 1 ELSE req[r].rows, req[r].incs)
  /\ UNCHANGED <<notPlanVars, videoHistory, today, user, requests, planChanges,
                 lastCleanupDate>>

\* the arguments of createUser: planType may be left out; isAdmin ?? false
\* makes a missing isAdmin the same argument as false
InsertUsers == [isAdmin : BOOLEAN, planType : PlanTypes \cup {Undefined}]

\* createUser(insertUser): the users row of a user who does not exist yet
CreateUser(insertUser) ==
  /\ user = NoUser
  /\ user' = [isAdmin |-> insertUser.isAdmin,
              planType |-> IF insertUser.planType = Undefined THEN "free"
                           ELSE insertUser.planType,
              planExpiry |-> IF insertUser.planType \notin {Undefined, "free"}
                             THEN today + PLAN_DAYS ELSE None,
              dailyVideoCount |-> 0,
              dailyResetDate |-> today]
  /\ UNCHANGED <<notPlanVars, videoHistory, today, userRows, req, requests,
                 planChanges, lastCleanupDate, lastResponse>>

\* the values an admin can send to PATCH /api/users/:id/plan
PlanUpdates ==
  [planType : PlanTypes, planStartDate : {None, today},
   planExpiry : {None, today - 1}]

\* updateUserPlan(userId, plan)
UpdateUserPlan(plan) ==
  /\ planChanges' = planChanges + 1
  /\ user' = [user EXCEPT
       !.planType = plan.planType,
       !.planExpiry = IF plan.planType # "free" /\ plan.planStartDate = None
                      THEN today + PLAN_DAYS ELSE plan.planExpiry,
       !.dailyVideoCount = 0,
       !.dailyResetDate = today]
  /\ UNCHANGED <<notPlanVars, videoHistory, today, userRows, req, requests, lastCleanupDate,
                 lastResponse>>

\* removePlan(userId)
RemovePlan ==
  /\ planChanges' = planChanges + 1
  /\ user' = [user EXCEPT !.planType = "free", !.planExpiry = None,
                          !.dailyVideoCount = 0, !.dailyResetDate = today]
  /\ UNCHANGED <<notPlanVars, videoHistory, today, userRows, req, requests, lastCleanupDate,
                 lastResponse>>

\* checkAndResetDailyCounts(): where daily_reset_date < today
CheckAndResetDailyCounts(u, date) ==
  IF u.dailyResetDate < date
  THEN [u EXCEPT !.dailyVideoCount = 0, !.dailyResetDate = date]
  ELSE u

\* the daily cleanup job at midnight, once per date: checkAndResetDailyCounts,
\* then clearAllVideoHistory
CheckAndCleanupHistory ==
  /\ lastCleanupDate # today
  /\ user' = CheckAndResetDailyCounts(user, today)
  /\ userRows' = 0
  /\ videoHistory' = ClearAllVideoHistory(videoHistory)
  /\ lastCleanupDate' = today
  /\ UNCHANGED <<notPlanVars, today, req, requests, planChanges, lastResponse>>

\* midnight passes
NextDay ==
  /\ today < MaxDay
  /\ today' = today + 1
  /\ UNCHANGED <<notPlanVars, videoHistory, user, userRows, req, requests, planChanges,
                 lastCleanupDate, lastResponse>>

\* The interval timer of the daily cleanup job.  Its clock counts quarters
\* of a minute since 00:00 (Asia/Karachi) of FirstDay.
QUARTERS == 4
CLEANUP_INTERVAL_MS == 1 * QUARTERS
DAY == 24 * 60 * QUARTERS

\* at: the instant of the last tick (of the start of the process before the
\* first one); runs: the dates for which the tick called checkAndResetDailyCounts
NoInterval == [at |-> 0, runs |-> << >>]

\* pktTime.toLocaleDateString(..), pktTime.getHours(), pktTime.getMinutes()
CurrentDate(at) == FirstDay + (at \div DAY)
CurrentHour(at) == (at \div (60 * QUARTERS)) % 24
CurrentMinute(at) == (at \div QUARTERS) % 60

\* the callback of setInterval(checkAndCleanupHistory, 60000), called late
\* quarters of a minute after the interval has elapsed: at midnight
\* (00:00-00:01) of a date other than lastCleanupDate checkAndResetDailyCounts,
\* clearAllVideoHistory and lastCleanupDate = currentDate
CheckAndCleanupHistoryTick(late, maxAt) ==
  LET at == interval.at + CLEANUP_INTERVAL_MS + late
      currentDate == CurrentDate(at)
      due == /\ CurrentHour(at) = 0
             /\ CurrentMinute(at) = 0
             /\ currentDate # lastCleanupDate
  IN /\ at <= maxAt
     /\ today' = currentDate
     /\ interval' = [at |-> at,
                     runs |-> IF due THEN Append(interval.runs, currentDate)
                              ELSE interval.runs]
     /\ IF due
        THEN /\ user' = CheckAndResetDailyCounts(user, currentDate)
             /\ userRows' = 0
             /\ videoHistory' = ClearAllVideoHistory(videoHistory)
             /\ lastCleanupDate' = currentDate
        ELSE UNCHANGED <<user, userRows, videoHistory, lastCleanupDate>>
     /\ UNCHANGED <<now, tokenVars, queueVars, pollVars, req, requests, planChanges,
                    lastResponse, planCheck, retry>>

\* user rows that exist when the day starts: an admin, a free user, and paid
\* users whose plan ended yesterday or ends tomorrow
InitUsers ==
  {[isAdmin |-> TRUE, planType |-> "empire", planExpiry |-> FirstDay - 1,
    dailyVideoCount |-> 0, dailyResetDate |-> FirstDay],
   [isAdmin |-> FALSE, planType |-> "free", planExpiry |-> None,
    dailyVideoCount |-> 0, dailyResetDate |-> FirstDay]}
  \cup {[isAdmin |-> FALSE, planType |-> p, planExpiry |-> FirstDay - 1,
         dailyVideoCount |-> 0, dailyResetDate |-> FirstDay] :
          p \in {"scale", "empire"}}
  \cup {[isAdmin |-> FALSE, planType |-> p, planExpiry |-> FirstDay + 1,
         dailyVideoCount |-> c * (DailyVideoLimit(p) - 1),
         dailyResetDate |-> FirstDay] :
          p \in {"scale", "empire"}, c \in {0, 1}}

NoResponse == [kind |-> "none", code |-> 0, expired |-> FALSE, wrote |-> FALSE]

(***************************************************************************)
(* withRetry (server/objectStorage.ts), the wrapper of the database calls  *)
(* of storage.ts.  An invocation of the operation returns or throws an     *)
(* error with a message and a code.                                        *)
(***************************************************************************)
\* maxRetries: number = 5
maxRetries == 5

Outcome(message, code) == [message |-> message, code |-> code]
Ok == Outcome("none", "ok")
ConnectionTerminated == Outcome("Connection terminated", "none")
ConnectionReset == Outcome("read ECONNRESET", "ECONNRESET")
AdminShutdown == Outcome("terminating connection", "57P01")
UniqueViolation == Outcome("duplicate key value", "23505")
PlainError == Outcome("none", "none")
Errors == {ConnectionTerminated, ConnectionReset, AdminShutdown, UniqueViolation,
           PlainError}

\* every error is retried
IsRetryable_Always(error) == TRUE

\* isRetryable: error.message?.includes(..) || error.code === ..
IsRetryable(error) ==
  \/ error.message \in {"Connection terminated", "read ECONNRESET"}
  \/ error.code \in {"ECONNRESET", "ECONNREFUSED", "ETIMEDOUT", "EPIPE", "57P01",
                     "57P02", "57P03", "08006", "08003"}

\* attempt: the loop counter; calls: the outcomes of the invocations made;
\* settled: the outcome withRetry returned or threw
NoRetry == [pc |-> "idle", attempt |-> 0, calls |-> << >>, settled |-> Ok]

\* withRetry(operation): for (let attempt = 0; attempt < maxRetries; attempt++)
WithRetryCalled ==
  /\ retry.pc \in {"idle", "returned", "thrown"}
  /\ retry' = [NoRetry EXCEPT !.pc = "call"]
  /\ UNCHANGED <<now, tokenVars, today, user, userRows, req, requests, planChanges,
                 lastCleanupDate, lastResponse, planCheck, interval, videoHistory,
                 queueVars, pollVars>>

\* return await operation(); catch: if (!isRetryable || attempt === maxRetries - 1)
\* throw error, otherwise the backoff
WithRetryOperation(outcome) ==
  /\ retry.pc = "call"
  /\ retry' =
       IF retry.attempt >= maxRetries
       THEN [retry EXCEPT !.pc = "thrown", !.settled = retry.calls[Len(retry.calls)]]
       ELSE IF outcome = Ok
       THEN [retry EXCEPT !.pc = "returned", !.calls = Append(@, outcome),
                          !.settled = outcome]
       ELSE IF ~IsRetryable(outcome) \/ retry.attempt = maxRetries - 1
       THEN [retry EXCEPT !.pc = "thrown", !.calls = Append(@, outcome),
                          !.settled = outcome]
       ELSE [retry EXCEPT !.pc = "backoff", !.calls = Append(@, outcome)]
  /\ UNCHANGED <<now, tokenVars, today, user, userRows, req, requests, planChanges,
                 lastCleanupDate, lastResponse, planCheck, interval, videoHistory,
                 queueVars, pollVars>>

\* await new Promise(resolve => setTimeout(resolve, totalDelay)); attempt++
WithRetryBackoff ==
  /\ retry.pc = "backoff"
  /\ retry' = [retry EXCEPT !.pc = "call", !.attempt = @ + 1]
  /\ UNCHANGED <<now, tokenVars, today, user, userRows, req, requests, planChanges,
                 lastCleanupDate, lastResponse, planCheck, interval, videoHistory,
                 queueVars, pollVars>>

NoCheck == [fn |-> "none", tool |-> "none", n |-> 0, result |-> FALSE]

\* no request in flight
PlanIdle ==
  /\ today = FirstDay
  /\ userRows = 0
  /\ req = [r \in ReqSlots |-> IdleReq]
  /\ requests = 0
  /\ planChanges = 0
  /\ lastCleanupDate = FirstDay
  /\ planCheck = NoCheck
  /\ lastResponse = NoResponse
  /\ retry = NoRetry
  /\ interval = NoInterval

(***************************************************************************)
(* Polling coordinator: enqueueStatusCheck (server/pollingCoordinator.ts)  *)
(***************************************************************************)
MAX_CONCURRENT_WORKERS == 20
MAX_ATTEMPTS == 240
RETRY_ATTEMPT == 8

Min(a, b) == IF a < b THEN a ELSE b

\* a PollingJob and the position of its processJob.  rotationToken is None
\* for undefined; apiKey is a token's credential or None for
\* process.env.VEO3_API_KEY; operationName and sceneId are 0 for those of the
\* submission and 1 for those of the resubmission of retryWithNewToken.
\* wrote records that the final updateVideoHistoryStatus of the worker
\* returned a row, retries the calls of retryWithNewToken, retriedAfter the
\* number of status checks that had returned when it was called;
\* lastDbUpdate is lastDbUpdate.get(job.videoId) (None when absent) and beats
\* the number of iterations that have passed their heartbeat
IdleWorker == [pc |-> "none", attempts |-> 0, hasRetriedWithNewToken |-> FALSE,
               wrote |-> FALSE, rotationToken |-> None, apiKey |-> None,
               operationName |-> 0, sceneId |-> 0, retries |-> 0,
               retriedAfter |-> 0, lastDbUpdate |-> None, beats |-> 0]

\* startWorkers without the test of activeWorkers
StartWorkers_NoCap(queue, active, w) ==
  LET k == Len(queue)
      started == {queue[i] : i \in 1..k}
  IN [pollingQueue |-> SubSeq(queue, k + 1, Len(queue)),
      activeWorkers |-> active + k,
      worker |-> [j \in Jobs |-> IF j \in started
                                 THEN [IdleWorker EXCEPT !.pc = "sleep"]
                                 ELSE w[j]]]

\* startWorkers(): while (activeWorkers < MAX_CONCURRENT_WORKERS && queue.length > 0)
\* shift a job and call processJob, which runs up to its first await
StartWorkers(queue, active, w) ==
  LET k == IF active < MAX_CONCURRENT_WORKERS
           THEN Min(MAX_CONCURRENT_WORKERS - active, Len(queue)) ELSE 0
      started == {queue[i] : i \in 1..k}
  IN [pollingQueue |-> SubSeq(queue, k + 1, Len(queue)),
      activeWorkers |-> active + k,
      worker |-> [j \in Jobs |-> IF j \in started
                                 THEN [IdleWorker EXCEPT !.pc = "sleep"]
                                 ELSE w[j]]]

\* enqueueStatusCheck(videoId, userId, operationName, sceneId, apiKey, rotationToken)
EnqueueStatusCheck(j) ==
  LET r == StartWorkers(Append(pollingQueue, j), activeWorkers, worker)
  IN /\ pollingQueue' = r.pollingQueue
     /\ activeWorkers' = r.activeWorkers
     /\ worker' = r.worker

(***************************************************************************)
(* Submission queue (server/bulkQueue.ts).  Without an active token       *)
(* getCurrentBatchToken() returns undefined and the key is                 *)
(* process.env.VEO3_API_KEY (ProcessSingleVideoToken); with active tokens  *)
(* the call dispenses the rotation token (ProcessSingleVideoBatchToken).   *)
(***************************************************************************)
MAX_RETRIES == 2
MAX_CONCURRENT == 8

\* let videosPerBatch = 10
videosPerBatch == 10

\* batchDelaySeconds = overrideDelaySeconds || 20
DEFAULT_DELAY == 20

\* the token_settings row as processQueue reads it: no row (or the read
\* fails), or a row with the batch delay an administrator has set
NoSettings == [exists |-> FALSE, batchDelaySeconds |-> DEFAULT_DELAY]
TokenSettingsRows == {NoSettings, [exists |-> TRUE, batchDelaySeconds |-> 15]}

\* the addToQueue call of a job: the first job of the call and its delaySeconds
Enqueued(first, delaySeconds) == [first |-> first, delaySeconds |-> delaySeconds]
NotEnqueued == Enqueued(0, None)

\* processed: the jobs of the current batch whose chunks have ended
IdlePq == [pc |-> "idle", batch |-> << >>, chunk |-> {}, processed |-> {},
           overrideDelaySeconds |-> None, batchDelaySeconds |-> 0]
\* rotationToken: the token getCurrentBatchToken returned to processSingleVideo;
\* videoRecord: what getVideoById returned to handleVideoFailure
IdleSv == [pc |-> "none", currentRetries |-> 0, rotationToken |-> None,
           videoRecord |-> "unread"]

\* processQueue without its isProcessing guard
ProcessQueueCalled_Unguarded(overrideDelaySeconds) ==
  /\ isProcessing' = TRUE
  /\ pq' = [IdlePq EXCEPT
       !.pc = "settings",
       !.overrideDelaySeconds = overrideDelaySeconds,
       !.batchDelaySeconds = IF overrideDelaySeconds \in {None, 0}
                             THEN DEFAULT_DELAY ELSE overrideDelaySeconds]

\* if (!isProcessing) processQueue(): isProcessing = true, await getTokenSettings()
\* batchDelaySeconds = overrideDelaySeconds || 20
ProcessQueueCalled(overrideDelaySeconds) ==
  IF isProcessing THEN UNCHANGED <<isProcessing, pq>>
  ELSE /\ isProcessing' = TRUE
       /\ pq' = [IdlePq EXCEPT
            !.pc = "settings",
            !.overrideDelaySeconds = overrideDelaySeconds,
            !.batchDelaySeconds = IF overrideDelaySeconds \in {None, 0}
                                  THEN DEFAULT_DELAY ELSE overrideDelaySeconds]

\* number of video_history rows created so far
RowCount == Cardinality({j \in Jobs : videoHistory[j].exists})

\* POST /api/bulk-generate for n prompts: the rows are created with status
\* pending, then addToQueue(queuedVideos, delaySeconds)
AddToQueue(n, delaySeconds) ==
  /\ \A j \in Jobs : videoHistory[j].exists <=> j <= RowCount
  /\ RowCount + n <= NumJobs
  /\ videoHistory' = [j \in Jobs |->
       IF j > RowCount /\ j <= RowCount + n THEN NewRow(UserId, "pending")
       ELSE videoHistory[j]]
  /\ bulkQueue' = bulkQueue \o SeqOfRange(RowCount + 1, RowCount + n)
  /\ delayOverride' = [j \in Jobs |->
       IF j > RowCount /\ j <= RowCount + n THEN Enqueued(RowCount + 1, delaySeconds)
       ELSE delayOverride[j]]
  /\ ProcessQueueCalled(delaySeconds)
  /\ UNCHANGED <<now, tokenVars, planVars, pollVars, sv, retryTimers,
                 submitAttempts, envKey>>

\* processQueue: the batch settings have been read;
\* if (!overrideDelaySeconds) batchDelaySeconds = parseInt(settings.batchDelaySeconds, 10) || 20
ProcessQueueSettings ==
  /\ pq.pc = "settings"
  /\ \E settings \in TokenSettingsRows :
       pq' = [pq EXCEPT
         !.pc = "loop",
         !.batchDelaySeconds =
           IF settings.exists /\ pq.overrideDelaySeconds \in {None, 0}
           THEN settings.batchDelaySeconds ELSE @]
  /\ UNCHANGED <<now, tokenVars, planVars, pollVars, videoHistory, bulkQueue,
                 isProcessing, sv, retryTimers, submitAttempts, envKey, delayOverride>>

\* the jobs of one chunk start processSingleVideo
ChunkStarted(jobs, chunk) ==
  [j \in Jobs |-> IF j \in chunk THEN [IdleSv EXCEPT !.pc = "token"] ELSE jobs[j]]

\* the whole batch taken as one chunk
FirstChunk_WholeBatch(batch) == {batch[i] : i \in 1..Len(batch)}

\* chunk = batch.slice(i, i + MAX_CONCURRENT)
FirstChunk(batch) == {batch[i] : i \in 1..Min(MAX_CONCURRENT, Len(batch))}
AfterFirstChunk(batch) == SubSeq(batch, Min(MAX_CONCURRENT, Len(batch)) + 1, Len(batch))

\* the whole queue taken as one batch
BatchSize_WholeQueue(queue) == Len(queue)

\* batchSize = Math.min(videosPerBatch, bulkQueue.length)
BatchSize(queue) == Min(videosPerBatch, Len(queue))

\* while (bulkQueue.length > 0): take the next batch and start its first chunk;
\* isProcessing = false when the queue is empty
ProcessQueueLoop ==
  /\ pq.pc = "loop"
  /\ IF Len(bulkQueue) = 0
     THEN /\ isProcessing' = FALSE
          /\ pq' = IdlePq
          /\ UNCHANGED <<bulkQueue, sv>>
     ELSE LET batchSize == BatchSize(bulkQueue)
              batch == SubSeq(bulkQueue, 1, batchSize)
          IN /\ bulkQueue' = SubSeq(bulkQueue, batchSize + 1, Len(bulkQueue))
             /\ pq' = [pq EXCEPT !.pc = "chunk", !.batch = AfterFirstChunk(batch),
                                 !.chunk = FirstChunk(batch)]
             /\ sv' = ChunkStarted(sv, FirstChunk(batch))
             /\ UNCHANGED isProcessing
  /\ UNCHANGED <<now, tokenVars, planVars, pollVars, videoHistory, retryTimers,
                 submitAttempts, envKey, delayOverride>>

\* await Promise.all(promises): the next chunk, the delay before the next
\* batch, or the end of the loop
ProcessQueueChunkDone ==
  /\ pq.pc = "chunk"
  /\ \A j \in pq.chunk : sv[j].pc = "end"
  /\ LET ended == [j \in Jobs |-> IF j \in pq.chunk THEN IdleSv ELSE sv[j]]
     IN IF Len(pq.batch) > 0
        THEN /\ pq' = [pq EXCEPT !.batch = AfterFirstChunk(pq.batch),
                                 !.chunk = FirstChunk(pq.batch),
                                 !.processed = @ \cup pq.chunk]
             /\ sv' = ChunkStarted(ended, FirstChunk(pq.batch))
             /\ UNCHANGED isProcessing
        ELSE /\ sv' = ended
             /\ IF Len(bulkQueue) > 0
                THEN /\ pq' = [pq EXCEPT !.pc = "delay", !.chunk = {},
                                         !.processed = @ \cup pq.chunk]
                     /\ UNCHANGED isProcessing
                ELSE /\ pq' = IdlePq
                     /\ isProcessing' = FALSE
  /\ UNCHANGED <<now, tokenVars, planVars, pollVars, videoHistory, bulkQueue,
                 retryTimers, submitAttempts, envKey, delayOverride>>

\* await new Promise(resolve => setTimeout(resolve, batchDelaySeconds * 1000))
ProcessQueueDelay ==
  /\ pq.pc = "delay"
  /\ pq' = [pq EXCEPT !.pc = "loop", !.processed = {}]
  /\ UNCHANGED <<now, tokenVars, planVars, pollVars, videoHistory, bulkQueue,
                 isProcessing, sv, retryTimers, submitAttempts, envKey, delayOverride>>

\* processSingleVideo: rotationToken = await getCurrentBatchToken() is undefined,
\* apiKey = process.env.VEO3_API_KEY; without a key handleVideoFailure
ProcessSingleVideoToken(j) ==
  /\ sv[j].pc = "token"
  /\ Len(ActiveTokens) = 0
  /\ sv' = [sv EXCEPT ![j].pc = IF envKey THEN "fetch" ELSE "failRead"]
  /\ UNCHANGED <<now, tokenVars, planVars, pollVars, videoHistory, bulkQueue,
                 isProcessing, pq, retryTimers, submitAttempts, envKey, delayOverride>>

\* processSingleVideo with active tokens: rotationToken = await
\* storage.getCurrentBatchToken(), run here as one step while no other
\* dispense is in flight, then updateTokenUsage(rotationToken.id); when every
\* active token is in cooldown the key is process.env.VEO3_API_KEY
ProcessSingleVideoBatchToken(j) ==
  /\ sv[j].pc = "token"
  /\ Len(ActiveTokens) > 0
  /\ \A x \in Txs : tx[x].pc = "idle"
  /\ LET all == ActiveTokens
         available == AvailableTokens(all)
     IN /\ tokenCooldowns' = CooldownsAfterCheck(tokenCooldowns, SeqRange(all), now)
        /\ tokenErrorTracking' =
             ErrorsAfterCheck(tokenErrorTracking, tokenCooldowns, SeqRange(all), now)
        /\ IF Len(available) = 0
           THEN /\ sv' = [sv EXCEPT ![j].pc = IF envKey THEN "fetch" ELSE "failRead"]
                /\ lastDispense' = Returned("batch", None, FALSE)
                /\ UNCHANGED <<apiTokens, lastUsedTokenIndex, lruOrder>>
           ELSE LET cur == available[TokenIndex(lastUsedTokenIndex, available) + 1]
                    rollover == BatchComplete(apiTokens[cur].currentBatchCount)
                    nextIndex == NextIndex(lastUsedTokenIndex, available)
                    next == available[nextIndex + 1]
                    res == IF rollover THEN next ELSE cur
                IN /\ apiTokens' = RowsAfterDispense(apiTokens, cur, next, rollover)
                   /\ lastUsedTokenIndex' =
                        IF rollover THEN nextIndex ELSE lastUsedTokenIndex
                   /\ lruOrder' = Touch(lruOrder, res)
                   /\ lastDispense' = Returned("batch", res,
                          /\ apiTokens[res].currentBatchCount >= BATCH_SIZE
                          /\ Len(available) > 1)
                   /\ sv' = [sv EXCEPT ![j].pc = "fetch", ![j].rotationToken = res]
  /\ UNCHANGED <<now, tx, dispenses, errorCalls, tenthErrorAt, replaced, planVars,
                 pollVars, videoHistory, bulkQueue, isProcessing, pq, retryTimers,
                 submitAttempts, envKey, delayOverride>>

\* processSingleVideo: the upstream submission is accepted (startBackgroundPolling)
\* or fails (timeout, network error, error status, no operations)
ProcessSingleVideoFetch(j, ok) ==
  /\ sv[j].pc = "fetch"
  /\ submitAttempts' = [submitAttempts EXCEPT ![j] = Min(@ + 1, MAX_RETRIES + 2)]
  /\ IF ok
     THEN /\ operation' = [operation EXCEPT ![j] = "pending"]
          /\ EnqueueStatusCheck(j)
          /\ sv' = [sv EXCEPT ![j].pc = "end"]
     ELSE /\ sv' = [sv EXCEPT ![j].pc = "failRead"]
          /\ UNCHANGED <<operation, pollingQueue, activeWorkers, worker>>
  /\ UNCHANGED <<now, tokenVars, planVars, videoHistory, bulkQueue, isProcessing,
                 pq, retryTimers, envKey, delayOverride, regen, statusCheck,
                 cloudinaryUploadCache, uploads, routeCalls>>

\* handleVideoFailure without the return for a missing row:
\* currentRetries = videoRecord.retryCount || 0
HandleVideoFailureRead_NoReturn(j) ==
  /\ sv[j].pc = "failRead"
  /\ sv' = [sv EXCEPT ![j] =
       [@ EXCEPT !.pc = "failWrite",
                 !.videoRecord = IF videoHistory[j].exists THEN "found" ELSE Undefined,
                 !.currentRetries = videoHistory[j].retryCount]]
  /\ UNCHANGED <<now, tokenVars, planVars, pollVars, videoHistory, bulkQueue,
                 isProcessing, pq, retryTimers, submitAttempts, envKey, delayOverride>>

\* handleVideoFailure: videoRecord = await storage.getVideoById(video.videoId);
\* if (!videoRecord) return
HandleVideoFailureRead(j) ==
  /\ sv[j].pc = "failRead"
  /\ sv' = [sv EXCEPT ![j] =
       IF ~videoHistory[j].exists
       THEN [@ EXCEPT !.pc = "end", !.videoRecord = Undefined]
       ELSE [@ EXCEPT !.pc = "failWrite", !.videoRecord = "found",
                      !.currentRetries = videoHistory[j].retryCount]]
  /\ UNCHANGED <<now, tokenVars, planVars, pollVars, videoHistory, bulkQueue,
                 isProcessing, pq, retryTimers, submitAttempts, envKey, delayOverride>>

\* handleVideoFailure: with currentRetries < MAX_RETRIES
\* storage.updateVideoHistoryFields(video.videoId, { retryCount, errorMessage })
\* (the object is the userId parameter, fields is undefined) and the
\* setTimeout that re-queues the video; otherwise the row is marked failed
\* catch: when the storage call throws, the row is marked failed
HandleVideoFailureWrite(j, thrown) ==
  /\ sv[j].pc = "failWrite"
  /\ IF sv[j].currentRetries < MAX_RETRIES /\ ~thrown
     THEN /\ videoHistory' =
               UpdateVideoHistoryFields(videoHistory, j, ObjectAsUserId, NoFields)
          /\ retryTimers' = retryTimers \cup {j}
     ELSE /\ videoHistory' =
               UpdateVideoHistoryStatus(videoHistory, j, UserId, "failed", NoUrl,
                 IF thrown THEN SubmitError
                 ELSE Message("Failed after retries", MAX_RETRIES))
          /\ UNCHANGED retryTimers
  /\ IF sv[j].rotationToken # None /\ ~thrown
     THEN \* if (rotationToken) storage.recordTokenError(rotationToken.id)
          LET t == sv[j].rotationToken
          IN /\ tokenErrorTracking' = RecordedErrors(tokenErrorTracking, t, now)
             /\ tokenCooldowns' =
                  RecordedCooldowns(tokenErrorTracking, tokenCooldowns, t, now)
             /\ errorCalls' = errorCalls + 1
             /\ tenthErrorAt' =
                  IF Len(RecordedErrors(tokenErrorTracking, t, now)[t]) = ERROR_THRESHOLD
                  THEN [tenthErrorAt EXCEPT ![t] = now] ELSE tenthErrorAt
     ELSE UNCHANGED <<tokenErrorTracking, tokenCooldowns, errorCalls, tenthErrorAt>>
  /\ sv' = [sv EXCEPT ![j].pc = "end"]
  /\ UNCHANGED <<now, apiTokens, lastUsedTokenIndex, lruOrder, tx, dispenses,
                 lastDispense, replaced, planVars, pollVars, bulkQueue, isProcessing,
                 pq, submitAttempts, envKey, delayOverride>>

\* the setTimeout callback of handleVideoFailure: bulkQueue.push(video) and
\* processQueue() when it is not running
RetryTimerFires(j) ==
  /\ j \in retryTimers
  /\ retryTimers' = retryTimers \ {j}
  /\ bulkQueue' = Append(bulkQueue, j)
  /\ ProcessQueueCalled(None)
  /\ UNCHANGED <<now, tokenVars, planVars, pollVars, videoHistory, sv,
                 submitAttempts, envKey, delayOverride>>

\* nothing queued
QueueIdle ==
  /\ bulkQueue = << >>
  /\ isProcessing = FALSE
  /\ pq = IdlePq
  /\ sv = [j \in Jobs |-> IdleSv]
  /\ retryTimers = {}
  /\ submitAttempts = [j \in Jobs |-> 0]
  /\ delayOverride = [j \in Jobs |-> NotEnqueued]

(***************************************************************************)
(* Polling coordinator workers (server/pollingCoordinator.ts), modelled    *)
(* for a token pool without an active token: getNextRotationToken()        *)
(* returns undefined and retryWithNewToken() returns false.                *)
(***************************************************************************)
MaxUploads == 2

\* the URL the upstream service reports, and a secure_url of the media host
VeoUrl(j, scene) == [host |-> "veo", job |-> j, scene |-> scene, n |-> 0]
CloudinaryUrl(j, scene, n) == [host |-> "cloudinary", job |-> j, scene |-> scene, n |-> n]

NoUploads == [started |-> 0, hosted |-> 0]

\* uploadVideoToCloudinary(videoUrl) is called / resolves with a secure_url
UploadStarted(u) == [u EXCEPT !.started = Min(@ + 1, MaxUploads)]
UploadHosted(u) == [u EXCEPT !.hosted = Min(@ + 1, MaxUploads)]

\* updateVideoHistoryStatus returns the updated row
StatusUpdateReturnsRow(rows, videoId, userId) ==
  rows[videoId].exists /\ rows[videoId].userId = userId

\* the upstream service finishes the operation of a bulk job
OperationSettles(j, outcome) ==
  /\ operation[j] = "pending"
  /\ operation' = [operation EXCEPT ![j] = outcome]
  /\ UNCHANGED <<now, tokenVars, planVars, videoHistory, queueVars, pollingQueue,
                 activeWorkers, worker, regen, statusCheck,
                 cloudinaryUploadCache, uploads, routeCalls>>

\* startBackgroundPolling(videoId, userId, operationName, sceneId, apiKey,
\* rotationToken) for a job whose submission the upstream service accepted
StartBackgroundPolling(j) ==
  /\ operation[j] = "none"
  /\ videoHistory[j].exists
  /\ operation' = [operation EXCEPT ![j] = "pending"]
  /\ EnqueueStatusCheck(j)
  /\ UNCHANGED <<now, tokenVars, planVars, videoHistory, queueVars, regen,
                 statusCheck, cloudinaryUploadCache, uploads, routeCalls>>

\* processJob finally without the startWorkers() call
WorkerEnds_NoStart(j, attempts, wrote) ==
  /\ pollingQueue' = pollingQueue
  /\ activeWorkers' = activeWorkers - 1
  /\ worker' = [worker EXCEPT ![j].pc = "done",
                               ![j].attempts = attempts,
                               ![j].wrote = wrote]

\* processJob, finally: activeWorkers--, startWorkers()
WorkerEnds(j, attempts, wrote) ==
  LET r == StartWorkers(pollingQueue, activeWorkers - 1,
                        [worker EXCEPT ![j].pc = "done",
                                       ![j].attempts = attempts,
                                       ![j].wrote = wrote])
  IN /\ pollingQueue' = r.pollingQueue
     /\ activeWorkers' = r.activeWorkers
     /\ worker' = r.worker

\* processJob after a status check that neither completed nor failed the job:
\* the next iteration, or after MAX_ATTEMPTS the row is marked failed
NotCompleted(j, attempts) ==
  IF attempts < MAX_ATTEMPTS
  THEN /\ worker' = [worker EXCEPT ![j].pc = "sleep", ![j].attempts = attempts]
       /\ UNCHANGED <<videoHistory, pollingQueue, activeWorkers>>
  ELSE /\ videoHistory' =
            UpdateVideoHistoryStatus(videoHistory, j, UserId, "failed", NoUrl,
                                     Message("timed out", MAX_ATTEMPTS))
       /\ WorkerEnds(j, attempts, StatusUpdateReturnsRow(videoHistory, j, UserId))

\* checkVideoStatus(job) up to the upload, and what processJob does with its
\* result; attempts = job.attempts, reachable = the status request returned 200
CheckVideoStatus(j, attempts, reachable) ==
  IF reachable /\ operation[j] = "complete"
  THEN /\ worker' = [worker EXCEPT ![j].pc = "upload", ![j].attempts = attempts]
       /\ uploads' = [uploads EXCEPT ![j] = UploadStarted(@)]
       /\ UNCHANGED <<videoHistory, pollingQueue, activeWorkers>>
  ELSE /\ UNCHANGED uploads
       /\ IF reachable /\ operation[j] = "failed"
          THEN /\ videoHistory' =
                    UpdateVideoHistoryStatus(videoHistory, j, UserId, "failed",
                                             NoUrl, UpstreamError)
               /\ WorkerEnds(j, attempts,
                             StatusUpdateReturnsRow(videoHistory, j, UserId))
          ELSE NotCompleted(j, attempts)

\* the test made against the attempts before job.attempts++
SwitchDue_BeforeIncrement(j) ==
  /\ worker[j].attempts = RETRY_ATTEMPT
  /\ ~worker[j].hasRetriedWithNewToken
  /\ (Len(ActiveTokens) > 0 \/ worker[j].rotationToken # None)

\* if (job.attempts === RETRY_ATTEMPT && !completed && !job.hasRetriedWithNewToken)
\* holds in the next iteration, and recordTokenError or getNextRotationToken
\* has a token to work on
SwitchDue(j) ==
  /\ worker[j].attempts + 1 = RETRY_ATTEMPT
  /\ ~worker[j].hasRetriedWithNewToken
  /\ (Len(ActiveTokens) > 0 \/ worker[j].rotationToken # None)

\* processJob: the timer fires, job.attempts++, the heartbeat
\* updateVideoHistoryFields(job.videoId, {}) (which changes updatedAt at most),
\* at RETRY_ATTEMPT retryWithNewToken() without a token (false), then
\* checkVideoStatus(job) up to the upload
ProcessJobPoll(j, reachable) ==
  /\ worker[j].pc = "sleep"
  /\ ~SwitchDue(j)
  /\ CheckVideoStatus(j, worker[j].attempts + 1, reachable)
  /\ UNCHANGED <<now, tokenVars, planVars, queueVars, operation, regen,
                 statusCheck, cloudinaryUploadCache, routeCalls>>

\* (now - lastUpdate) >= 60000
HEARTBEAT_INTERVAL_MS == 1

\* shouldUpdate = !lastUpdate || (now - lastUpdate) >= 60000
ShouldUpdate(lastUpdate) ==
  lastUpdate = None \/ now - lastUpdate >= HEARTBEAT_INTERVAL_MS

\* processJob, the heartbeat of an iteration as a step of its own: with
\* shouldUpdate await storage.updateVideoHistoryFields(job.videoId, {}) (the
\* object is the userId parameter, fields is undefined) and
\* lastDbUpdate.set(job.videoId, now); when the storage call throws the
\* catch logs and the entry is not set
ProcessJobHeartbeat(j, thrown) ==
  /\ worker[j].pc = "sleep"
  /\ worker[j].beats = worker[j].attempts
  /\ IF ShouldUpdate(worker[j].lastDbUpdate)
     THEN IF thrown
          THEN /\ worker' = [worker EXCEPT ![j].beats = @ + 1]
               /\ UNCHANGED videoHistory
          ELSE /\ videoHistory' =
                    UpdateVideoHistoryFields(videoHistory, j, ObjectAsUserId, NoFields)
               /\ worker' = [worker EXCEPT ![j].beats = @ + 1,
                                           ![j].lastDbUpdate = now]
     ELSE /\ worker' = [worker EXCEPT ![j].beats = @ + 1]
          /\ UNCHANGED videoHistory
  /\ UNCHANGED <<now, tokenVars, planVars, queueVars, operation, pollingQueue,
                 activeWorkers, regen, statusCheck, cloudinaryUploadCache,
                 uploads, routeCalls>>

\* processJob at RETRY_ATTEMPT: the timer fires, job.attempts++, the heartbeat,
\* storage.recordTokenError(job.rotationToken.id), retryWithNewToken(job) is called
ProcessJobRecordError(j) ==
  /\ worker[j].pc = "sleep"
  /\ SwitchDue(j)
  /\ LET t == worker[j].rotationToken
     IN IF t # None
        THEN /\ tokenErrorTracking' = RecordedErrors(tokenErrorTracking, t, now)
             /\ tokenCooldowns' =
                  RecordedCooldowns(tokenErrorTracking, tokenCooldowns, t, now)
             /\ errorCalls' = errorCalls + 1
             /\ tenthErrorAt' =
                  IF Len(RecordedErrors(tokenErrorTracking, t, now)[t]) = ERROR_THRESHOLD
                  THEN [tenthErrorAt EXCEPT ![t] = now] ELSE tenthErrorAt
        ELSE UNCHANGED <<tokenErrorTracking, tokenCooldowns, errorCalls, tenthErrorAt>>
  /\ worker' = [worker EXCEPT ![j].pc = "rotate",
                              ![j].attempts = @ + 1,
                              ![j].retries = @ + 1,
                              ![j].retriedAfter = worker[j].attempts]
  /\ UNCHANGED <<now, apiTokens, lastUsedTokenIndex, lruOrder, tx, dispenses,
                 lastDispense, replaced, planVars, videoHistory, queueVars, operation,
                 pollingQueue, activeWorkers, regen, statusCheck,
                 cloudinaryUploadCache, uploads, routeCalls>>

\* retryWithNewToken: nextToken = await storage.getNextRotationToken(); with a
\* token other than job.rotationToken job.apiKey and job.rotationToken are
\* set, then updateTokenUsage and updateVideoHistoryStatus(.., 'pending')
\* (return false without a row), up to the fetch of the resubmission
ProcessJobRotate(j) ==
  /\ worker[j].pc = "rotate"
  /\ \E ord \in RotationOrders :
       LET k == FirstEligible(ord)
           visited == IF k = 0 THEN SeqRange(ord) ELSE {ord[i] : i \in 1..k}
           nextToken == IF k = 0 THEN None ELSE ord[k]
       IN /\ lastDispense' = Returned("next", nextToken, FALSE)
          /\ tokenCooldowns' = CooldownsAfterCheck(tokenCooldowns, visited, now)
          /\ tokenErrorTracking' =
               ErrorsAfterCheck(tokenErrorTracking, tokenCooldowns, visited, now)
          /\ IF nextToken # None /\ nextToken # worker[j].rotationToken
             THEN /\ lruOrder' = Touch(lruOrder, nextToken)
                  /\ videoHistory' =
                       UpdateVideoHistoryStatus(videoHistory, j, UserId, "pending",
                                                NoUrl, NoMessage)
                  /\ worker' = [worker EXCEPT
                       ![j].apiKey = nextToken,
                       ![j].rotationToken = nextToken,
                       ![j].pc = IF StatusUpdateReturnsRow(videoHistory, j, UserId)
                                 THEN "resubmit" ELSE "check"]
             ELSE /\ worker' = [worker EXCEPT ![j].pc = "check"]
                  /\ UNCHANGED <<lruOrder, videoHistory>>
  /\ UNCHANGED <<now, apiTokens, lastUsedTokenIndex, tx, dispenses, errorCalls,
                 tenthErrorAt, replaced, planVars, queueVars, operation, pollingQueue,
                 activeWorkers, regen, statusCheck, cloudinaryUploadCache,
                 uploads, routeCalls>>

\* retryWithNewToken: the resubmission returns.  Accepted: job.operationName,
\* job.sceneId and job.hasRetriedWithNewToken are set and
\* storage.updateVideoHistoryFields(job.videoId, { tokenUsed: nextToken.id })
\* is called (the object is the userId parameter, fields is undefined);
\* otherwise (error status, no operations, or the fetch throws) false
ProcessJobResubmitted(j, accepted) ==
  /\ worker[j].pc = "resubmit"
  /\ IF accepted
     THEN /\ worker' = [worker EXCEPT ![j].pc = "check",
                                      ![j].operationName = 1,
                                      ![j].sceneId = 1,
                                      ![j].hasRetriedWithNewToken = TRUE]
          /\ operation' = [operation EXCEPT ![j] = "pending"]
          /\ videoHistory' =
               UpdateVideoHistoryFields(videoHistory, j, ObjectAsUserId, NoFields)
     ELSE /\ worker' = [worker EXCEPT ![j].pc = "check"]
          /\ UNCHANGED <<operation, videoHistory>>
  /\ UNCHANGED <<now, tokenVars, planVars, queueVars, pollingQueue, activeWorkers,
                 regen, statusCheck, cloudinaryUploadCache, uploads, routeCalls>>

\* processJob at RETRY_ATTEMPT after retryWithNewToken: checkVideoStatus(job)
ProcessJobCheck(j, reachable) ==
  /\ worker[j].pc = "check"
  /\ CheckVideoStatus(j, worker[j].attempts, reachable)
  /\ UNCHANGED <<now, tokenVars, planVars, queueVars, operation, regen,
                 statusCheck, cloudinaryUploadCache, routeCalls>>

\* checkVideoStatus: uploadVideoToCloudinary(veoVideoUrl) resolves and the row
\* is set to completed with the hosted URL, or it throws and the catch reports
\* the job as not completed
ProcessJobUploaded(j, ok) ==
  /\ worker[j].pc = "upload"
  /\ IF ok
     THEN /\ uploads' = [uploads EXCEPT ![j] = UploadHosted(@)]
          /\ videoHistory' =
               UpdateVideoHistoryStatus(videoHistory, j, UserId, "completed",
                 CloudinaryUrl(j, "bulk", UploadHosted(uploads[j]).hosted), NoMessage)
          /\ WorkerEnds(j, worker[j].attempts,
                        StatusUpdateReturnsRow(videoHistory, j, UserId))
     ELSE /\ UNCHANGED uploads
          /\ NotCompleted(j, worker[j].attempts)
  /\ UNCHANGED <<now, tokenVars, planVars, queueVars, operation, regen,
                 statusCheck, cloudinaryUploadCache, routeCalls>>

(***************************************************************************)
(* POST /api/check-video-status (routes), for the sceneId of a bulk job    *)
(***************************************************************************)
MaxStatusCalls == 2

NoUpload == [state |-> "none", url |-> NoUrl]

\* the request up to res.json(status) or to the await of the upload promise;
\* the heartbeat updateVideoHistoryFields(videoId, undefined, {}) changes
\* updatedAt only
CheckVideoStatusRoute(j, reachable) ==
  /\ routeCalls.status < MaxStatusCalls
  /\ Len(ActiveTokens) = 0
  /\ envKey
  /\ routeCalls' = [routeCalls EXCEPT !.status = @ + 1]
  /\ IF reachable /\ operation[j] = "complete"
     THEN CASE cloudinaryUploadCache[j].state = "none" ->
                 /\ uploads' = [uploads EXCEPT ![j] = UploadStarted(@)]
                 /\ cloudinaryUploadCache' =
                      [cloudinaryUploadCache EXCEPT ![j].state = "pending"]
                 /\ statusCheck' = [statusCheck EXCEPT ![j] = @ + 1]
            [] cloudinaryUploadCache[j].state = "pending" ->
                 /\ statusCheck' = [statusCheck EXCEPT ![j] = @ + 1]
                 /\ UNCHANGED <<uploads, cloudinaryUploadCache>>
            [] OTHER ->
                 UNCHANGED <<uploads, cloudinaryUploadCache, statusCheck>>
     ELSE UNCHANGED <<uploads, cloudinaryUploadCache, statusCheck>>
  /\ UNCHANGED <<now, tokenVars, planVars, videoHistory, queueVars, operation,
                 pollingQueue, activeWorkers, worker, regen>>

\* the cached upload promise settles and a rejected promise stays in the cache
UploadPromiseSettles_KeepFailed(j, ok) ==
  /\ cloudinaryUploadCache[j].state = "pending"
  /\ IF ok
     THEN /\ uploads' = [uploads EXCEPT ![j] = UploadHosted(@)]
          /\ cloudinaryUploadCache' = [cloudinaryUploadCache EXCEPT ![j] =
               [state |-> "resolved",
                url |-> CloudinaryUrl(j, "bulk", UploadHosted(uploads[j]).hosted)]]
     ELSE /\ cloudinaryUploadCache' = [cloudinaryUploadCache EXCEPT ![j].state = "rejected"]
          /\ UNCHANGED uploads
  /\ statusCheck' = [statusCheck EXCEPT ![j] = 0]
  /\ UNCHANGED <<now, tokenVars, planVars, videoHistory, queueVars, operation,
                 pollingQueue, activeWorkers, worker, regen, routeCalls>>

\* the cached upload promise settles: the waiting requests respond; a failed
\* upload is removed from the cache
UploadPromiseSettles(j, ok) ==
  /\ cloudinaryUploadCache[j].state = "pending"
  /\ IF ok
     THEN /\ uploads' = [uploads EXCEPT ![j] = UploadHosted(@)]
          /\ cloudinaryUploadCache' = [cloudinaryUploadCache EXCEPT ![j] =
               [state |-> "resolved",
                url |-> CloudinaryUrl(j, "bulk", UploadHosted(uploads[j]).hosted)]]
     ELSE /\ cloudinaryUploadCache' = [cloudinaryUploadCache EXCEPT ![j] = NoUpload]
          /\ UNCHANGED uploads
  /\ statusCheck' = [statusCheck EXCEPT ![j] = 0]
  /\ UNCHANGED <<now, tokenVars, planVars, videoHistory, queueVars, operation,
                 pollingQueue, activeWorkers, worker, regen, routeCalls>>

(***************************************************************************)
(* POST /api/regenerate-video (routes) and its background poller           *)
(***************************************************************************)
MaxRegenerations == 1

\* const maxAttempts = 16, const retryAttempt = 8
maxAttempts == 16

NoRegen == [pc |-> "none", attempts |-> 0, op |-> "none"]

\* the request up to the upstream submission: the row is set to pending; 404
\* without a row of the user, 500 without an API key
RegenerateVideo(j) ==
  /\ regen[j].pc \in {"none", "done"}
  /\ routeCalls.regenerate < MaxRegenerations
  /\ Len(ActiveTokens) = 0
  /\ routeCalls' = [routeCalls EXCEPT !.regenerate = @ + 1]
  /\ videoHistory' = UpdateVideoHistoryStatus(videoHistory, j, UserId, "pending", NoUrl, NoMessage)
  /\ regen' = [regen EXCEPT ![j] =
       IF StatusUpdateReturnsRow(videoHistory, j, UserId) /\ envKey
       THEN [NoRegen EXCEPT !.pc = "submit"] ELSE @]
  /\ UNCHANGED <<now, tokenVars, planVars, queueVars, operation, pollingQueue,
                 activeWorkers, worker, statusCheck, cloudinaryUploadCache,
                 uploads>>

\* the upstream submission returns: accepted (the poller starts), rejected
\* (the row is marked failed) or the fetch throws (500)
RegenerateSubmit(j, outcome) ==
  /\ regen[j].pc = "submit"
  /\ CASE outcome = "accepted" ->
            /\ regen' = [regen EXCEPT ![j].pc = "sleep", ![j].op = "pending"]
            /\ UNCHANGED videoHistory
       [] outcome = "rejected" ->
            /\ regen' = [regen EXCEPT ![j].pc = "done"]
            /\ videoHistory' =
                 UpdateVideoHistoryStatus(videoHistory, j, UserId, "failed", NoUrl,
                                          NoMessage)
       [] OTHER ->
            /\ regen' = [regen EXCEPT ![j].pc = "done"]
            /\ UNCHANGED videoHistory
  /\ UNCHANGED <<now, tokenVars, planVars, queueVars, operation, pollingQueue,
                 activeWorkers, worker, statusCheck, cloudinaryUploadCache,
                 uploads, routeCalls>>

\* the upstream service finishes the regeneration
RegenerationSettles(j, outcome) ==
  /\ regen[j].op = "pending"
  /\ regen' = [regen EXCEPT ![j].op = outcome]
  /\ UNCHANGED <<now, tokenVars, planVars, videoHistory, queueVars, operation,
                 pollingQueue, activeWorkers, worker, statusCheck,
                 cloudinaryUploadCache, uploads, routeCalls>>

\* the background poller: the timer fires, attempts++, at retryAttempt
\* getCurrentBatchToken() (undefined), then checkVideoStatus
RegeneratePoll(j, reachable) ==
  /\ regen[j].pc = "sleep"
  /\ Len(ActiveTokens) = 0
  /\ LET attempts == regen[j].attempts + 1
         status == IF reachable THEN regen[j].op ELSE "pending"
     IN CASE status = "complete" ->
               /\ regen' = [regen EXCEPT ![j].pc = "upload", ![j].attempts = attempts]
               /\ UNCHANGED videoHistory
          [] status = "nourl" ->
               /\ regen' = [regen EXCEPT ![j].pc = "done", ![j].attempts = attempts]
               /\ UNCHANGED videoHistory
          [] status = "failed" ->
               /\ regen' = [regen EXCEPT ![j].pc = "done", ![j].attempts = attempts]
               /\ videoHistory' = UpdateVideoHistoryFields(videoHistory, j, Undefined,
                                    [status |-> "failed"])
          [] OTHER ->
               IF attempts < maxAttempts
               THEN /\ regen' = [regen EXCEPT ![j].attempts = attempts]
                    /\ UNCHANGED videoHistory
               ELSE /\ regen' = [regen EXCEPT ![j].pc = "done", ![j].attempts = attempts]
                    /\ videoHistory' = UpdateVideoHistoryFields(videoHistory, j,
                                         Undefined, [status |-> "failed"])
  /\ UNCHANGED <<now, tokenVars, planVars, queueVars, operation, pollingQueue,
                 activeWorkers, worker, statusCheck, cloudinaryUploadCache,
                 uploads, routeCalls>>

\* the background poller: uploadVideoToCloudinary resolves, or throws and the
\* row keeps the upstream URL
RegenerateUploaded(j, ok) ==
  /\ regen[j].pc = "upload"
  /\ regen' = [regen EXCEPT ![j].pc = "done"]
  /\ videoHistory' = UpdateVideoHistoryFields(videoHistory, j, Undefined,
       [videoUrl |-> IF ok THEN CloudinaryUrl(j, "regenerate", 1)
                     ELSE VeoUrl(j, "regenerate"),
        status |-> "completed"])
  /\ UNCHANGED <<now, tokenVars, planVars, queueVars, operation, pollingQueue,
                 activeWorkers, worker, statusCheck, cloudinaryUploadCache,
                 uploads, routeCalls>>

\* no job handed over, no request in flight
PollIdle ==
  /\ operation = [j \in Jobs |-> "none"]
  /\ pollingQueue = << >>
  /\ activeWorkers = 0
  /\ worker = [j \in Jobs |-> IdleWorker]
  /\ regen = [j \in Jobs |-> NoRegen]
  /\ statusCheck = [j \in Jobs |-> 0]
  /\ cloudinaryUploadCache = [j \in Jobs |-> NoUpload]
  /\ uploads = [j \in Jobs |-> NoUploads]
  /\ routeCalls = [status |-> 0, regenerate |-> 0]

\* no video_history row
NoRows == [j \in Jobs |-> NoRow]

(***************************************************************************)
(* Token pool: administration (server/storage.ts)                          *)
(***************************************************************************)
\* deleteApiToken(tokenId): delete from api_tokens where id = tokenId.  The
\* delete waits while a transaction holds the row selected FOR UPDATE.
DeleteApiToken(t) ==
  /\ apiTokens[t].token # None
  /\ \A x \in Txs : t \notin LocksHeld(x)
  /\ apiTokens' = [apiTokens EXCEPT ![t] = NoTokenRow]
  /\ UNCHANGED <<notTokenVars, now, lastUsedTokenIndex, lruOrder, tokenErrorTracking,
                 tokenCooldowns, tx, dispenses, errorCalls, tenthErrorAt, lastDispense>>

\* toggleApiTokenStatus(tokenId, isActive)
ToggleApiTokenStatus(t, isActive) ==
  /\ apiTokens[t].token # None
  /\ apiTokens[t].isActive # isActive
  /\ apiTokens' = [apiTokens EXCEPT ![t].isActive = isActive]
  /\ UNCHANGED <<notTokenVars, now, lastUsedTokenIndex, lruOrder, tokenErrorTracking,
                 tokenCooldowns, tx, dispenses, errorCalls, tenthErrorAt, lastDispense>>

\* uniqueTokens.size !== tokens.length
HasDuplicates(tokens) ==
  \E i, k \in 1..Len(tokens) : i # k /\ tokens[i] = tokens[k]

\* the inserts of replaceAllTokens without the delete of the old rows
ReplacedTokens_KeepOld(rows, tokens) ==
  [t \in Tokens |-> IF t <= Len(tokens) THEN TokenRow(tokens[t], t, TRUE, 0)
                    ELSE rows[t]]

\* tx.delete(apiTokens), then one insert per token with label Token i + 1 and
\* isActive true; the rows are keyed by creation order
ReplacedTokens(rows, tokens) ==
  [t \in Tokens |-> IF t <= Len(tokens) THEN TokenRow(tokens[t], t, TRUE, 0)
                    ELSE NoTokenRow]

\* replaceAllTokens(tokens), one transaction.  The new rows have new ids: the
\* in-memory maps and lastUsedAt hold nothing for them.  token_settings is
\* not written.
ReplaceAllTokens(tokens) ==
  /\ \A x \in Txs : tx[x].pc = "idle"
  /\ IF HasDuplicates(tokens)
     THEN UNCHANGED <<apiTokens, videoHistory, lruOrder, tokenErrorTracking,
                      tokenCooldowns, tenthErrorAt, replaced>>
     ELSE /\ videoHistory' = [j \in Jobs |-> [videoHistory[j] EXCEPT !.tokenUsed = None]]
          /\ apiTokens' = ReplacedTokens(apiTokens, tokens)
          /\ lruOrder' = << >>
          /\ tokenErrorTracking' = [t \in Tokens |-> << >>]
          /\ tokenCooldowns' = [t \in Tokens |-> 0]
          /\ tenthErrorAt' = [t \in Tokens |-> None]
          /\ replaced' = [calls |-> replaced.calls + 1, tokens |-> tokens,
                          previous |-> replaced.tokens]
  /\ UNCHANGED <<now, lastUsedTokenIndex, tx, dispenses, errorCalls, lastDispense,
                 planVars, queueVars, pollVars>>

(***************************************************************************)
(* Specification of the token pool                                         *)
(***************************************************************************)
NineErrors(t) == [i \in 1..(ERROR_THRESHOLD - 1) |-> t]

TokenRows(counts) ==
  {[t \in Tokens |-> TokenRow(t, 0, TRUE, c[t])] : c \in [Tokens -> counts]}

NotReplaced == [calls |-> 0, tokens |-> << >>, previous |-> << >>]

\* no dispense in flight
TokensIdle ==
  /\ now = 1
  /\ lastUsedTokenIndex = 0
  /\ lruOrder = << >>
  /\ tokenCooldowns = [t \in Tokens |-> 0]
  /\ tx = [x \in Txs |-> IdleTx]
  /\ dispenses = 0
  /\ errorCalls = 0
  /\ tenthErrorAt = [t \in Tokens |-> None]
  /\ lastDispense = [op |-> "none", token |-> None, inCooldown |-> FALSE,
                     full |-> FALSE]
  /\ replaced = NotReplaced

InitTokens ==
  /\ TokensIdle
  /\ PlanIdle
  /\ user = NoUser
  /\ videoHistory = NoRows
  /\ QueueIdle
  /\ envKey = TRUE
  /\ PollIdle
  /\ apiTokens \in TokenRows(InitBatchCounts)
  /\ tokenErrorTracking \in [Tokens -> {<< >>, NineErrors(1)}]

NextTokens ==
  \/ \E x \in Txs : TxBegin(x)
  \/ \E x \in Txs : TxFilter(x)
  \/ \E x \in Txs : TxLockCur(x)
  \/ \E x \in Txs : TxLockNext(x)
  \/ \E x \in Txs : TxCommit(x)
  \/ \E t \in Tokens : errorCalls < MaxErrorCalls /\ RecordTokenError(t)
  \/ GetNextRotationToken
  \/ \E i \in 0..NumTokens : GetTokenByIndex(i)
  \/ \E t \in Tokens : UpdateTokenUsage(t)
  \/ \E d \in TickSteps : Tick(d)

SpecTokens == InitTokens /\ [][NextTokens]_vars

(***************************************************************************)
(* Specification of error tracking and cooldowns.  A token starts with no  *)
(* recorded error or with eight errors recorded in the first minute; the   *)
(* clock moves to the instants at which the 20 minute window and the two   *)
(* hour cooldown of errors recorded at minute 1 or 20 open and close; one   *)
(* getCurrentBatchToken call runs at a time.                               *)
(***************************************************************************)
MaxRecorded == 3

Instants == {ERROR_WINDOW_MS, ERROR_WINDOW_MS + 1, COOLDOWN_DURATION_MS,
             COOLDOWN_DURATION_MS + 1}

EightErrors(t) == [i \in 1..(ERROR_THRESHOLD - 2) |-> t]

InitErrors ==
  /\ TokensIdle
  /\ PlanIdle
  /\ user = NoUser
  /\ videoHistory = NoRows
  /\ QueueIdle
  /\ envKey = TRUE
  /\ PollIdle
  /\ apiTokens \in TokenRows({0})
  /\ tokenErrorTracking \in [Tokens -> {<< >>, EightErrors(1)}]

NextErrors ==
  \/ \E t \in Tokens : errorCalls < MaxRecorded /\ RecordTokenError(t)
  \/ \E x \in Txs : (\A y \in Txs : tx[y].pc = "idle") /\ TxBegin(x)
  \/ \E x \in Txs : TxFilter(x)
  \/ \E x \in Txs : TxLockCur(x)
  \/ \E x \in Txs : TxCommit(x)
  \/ GetNextRotationToken
  \/ \E t \in Tokens : UpdateTokenUsage(t)
  \/ \E d \in 1..MaxNow : now + d \in Instants /\ Tick(d)

SpecErrors == InitErrors /\ [][NextErrors]_vars

(***************************************************************************)
(* Specification of plan enforcement at the submission entry points        *)
(***************************************************************************)
InitPlan ==
  /\ PlanIdle
  /\ user \in InitUsers
  /\ videoHistory = NoRows
  /\ QueueIdle
  /\ envKey = TRUE
  /\ PollIdle
  /\ TokensIdle
  /\ apiTokens \in TokenRows({0})
  /\ tokenErrorTracking = [t \in Tokens |-> << >>]

NextPlan ==
  \/ \E r \in ReqSlots, n \in BulkSizes : BulkGenerateGetUser(r, n)
  \/ \E r \in ReqSlots : BulkGenerateCheck(r)
  \/ \E r \in ReqSlots : BulkGenerateAddRow(r)
  \/ \E r \in ReqSlots : BulkGenerateIncrement(r)
  \/ \E r \in ReqSlots, st \in HistoryStatuses : VideoHistoryGetUser(r, st)
  \/ \E r \in ReqSlots : VideoHistoryCheck(r)
  \/ \E r \in ReqSlots : VideoHistoryAddRow(r)
  \/ \E r \in ReqSlots : VideoHistoryIncrement(r)
  \/ \E r \in ReqSlots : GenerateVeoVideoGetUser(r)
  \/ \E r \in ReqSlots : GenerateVeoVideoCheck(r)
  \/ \E r \in ReqSlots, ok \in BOOLEAN : GenerateVeoVideoSubmit(r, ok)
  \/ \E r \in ReqSlots : GenerateImageToVideoGetUser(r)
  \/ \E r \in ReqSlots : GenerateImageToVideoCheck(r)
  \/ \E r \in ReqSlots, ok \in BOOLEAN : GenerateImageToVideoSubmit(r, ok)
  \/ \E plan \in PlanUpdates : planChanges < MaxPlanChanges /\ UpdateUserPlan(plan)
  \/ planChanges < MaxPlanChanges /\ RemovePlan
  \/ CheckAndCleanupHistory
  \/ NextDay

SpecPlan == InitPlan /\ [][NextPlan]_vars

(***************************************************************************)
(* Specification of the submission queue                                   *)
(***************************************************************************)
\* a token pool without an active token
NoActiveTokens ==
  /\ TokensIdle
  /\ apiTokens = [t \in Tokens |-> TokenRow(t, 0, FALSE, 0)]
  /\ tokenErrorTracking = [t \in Tokens |-> << >>]

InitQueue ==
  /\ NoActiveTokens
  /\ PlanIdle
  /\ user = NoUser
  /\ videoHistory = NoRows
  /\ QueueIdle
  /\ envKey \in BOOLEAN
  /\ PollIdle

\* the number of jobs the bulk requests of this specification submit
MaxQueued == 2

NextQueue ==
  \/ \E n \in 1..MaxQueued : RowCount + n <= MaxQueued /\ AddToQueue(n, DelaySeconds("empire"))
  \/ ProcessQueueSettings
  \/ ProcessQueueLoop
  \/ ProcessQueueChunkDone
  \/ ProcessQueueDelay
  \/ \E j \in Jobs : ProcessSingleVideoToken(j)
  \/ \E j \in Jobs, ok \in BOOLEAN : ProcessSingleVideoFetch(j, ok)
  \/ \E j \in Jobs : HandleVideoFailureRead(j)
  \/ \E j \in Jobs, thrown \in BOOLEAN : HandleVideoFailureWrite(j, thrown)
  \/ \E j \in Jobs : RetryTimerFires(j)

\* every timer fires and every awaited call returns
QueueFairness ==
  /\ WF_vars(ProcessQueueSettings)
  /\ WF_vars(ProcessQueueLoop)
  /\ WF_vars(ProcessQueueChunkDone)
  /\ WF_vars(ProcessQueueDelay)
  /\ \A j \in 1..MaxQueued :
       /\ WF_vars(ProcessSingleVideoToken(j))
       /\ WF_vars(\E ok \in BOOLEAN : ProcessSingleVideoFetch(j, ok))
       /\ WF_vars(HandleVideoFailureRead(j))
       /\ WF_vars(\E thrown \in BOOLEAN : HandleVideoFailureWrite(j, thrown))
       /\ WF_vars(RetryTimerFires(j))

SpecQueue == InitQueue /\ [][NextQueue]_vars /\ QueueFairness

(***************************************************************************)
(* Specification of the submission queue next to the daily cleanup job.    *)
(* The tokens are active, the first one with no recorded error or one      *)
(* error short of the threshold; the upstream service rejects every        *)
(* submission; midnight passes and the cleanup job purges video_history    *)
(* while jobs are queued, in flight or waiting for their retry timer.      *)
(* A video id is never given to a second row.                              *)
(***************************************************************************)
\* the number of midnights that pass
MaxPurgeDays == 2

\* the number of submission attempts after which a job is not re-queued
MaxPurgeAttempts == 2

InitPurge ==
  /\ TokensIdle
  /\ apiTokens \in TokenRows({0})
  /\ tokenErrorTracking \in {[t \in Tokens |-> << >>],
                              [t \in Tokens |-> IF t = 1 THEN NineErrors(1) ELSE << >>]}
  /\ PlanIdle
  /\ user = NoUser
  /\ videoHistory = NoRows
  /\ QueueIdle
  /\ envKey \in BOOLEAN
  /\ PollIdle

NextPurge ==
  \/ \E n \in 1..MaxQueued :
       /\ RowCount + n <= MaxQueued
       /\ \A j \in Jobs : delayOverride[j] = NotEnqueued
       /\ AddToQueue(n, DelaySeconds("empire"))
  \/ ProcessQueueSettings
  \/ ProcessQueueLoop
  \/ ProcessQueueChunkDone
  \/ ProcessQueueDelay
  \/ \E j \in Jobs : ProcessSingleVideoBatchToken(j)
  \/ \E j \in Jobs : ProcessSingleVideoFetch(j, FALSE)
  \/ \E j \in Jobs : HandleVideoFailureRead(j)
  \/ \E j \in Jobs, thrown \in BOOLEAN : HandleVideoFailureWrite(j, thrown)
  \/ \E j \in Jobs : submitAttempts[j] < MaxPurgeAttempts /\ RetryTimerFires(j)
  \/ today < FirstDay + MaxPurgeDays /\ NextDay
  \/ CheckAndCleanupHistory

SpecPurge == InitPurge /\ [][NextPurge]_vars

(***************************************************************************)
(* Specification of the polling coordinator with the status route and the  *)
(* daily cleanup job                                                       *)
(***************************************************************************)
\* processSingleVideo has submitted the first job of a bulk request and
\* awaits the response of the upstream service
OneJobSubmitted ==
  /\ videoHistory = [j \in Jobs |-> IF j = 1 THEN NewRow(UserId, "pending") ELSE NoRow]
  /\ bulkQueue = << >>
  /\ isProcessing = TRUE
  /\ pq = [IdlePq EXCEPT !.pc = "chunk", !.chunk = {1},
                         !.overrideDelaySeconds = DelaySeconds("empire"),
                         !.batchDelaySeconds = DelaySeconds("empire")]
  /\ sv = [j \in Jobs |-> IF j = 1 THEN [IdleSv EXCEPT !.pc = "fetch"] ELSE IdleSv]
  /\ retryTimers = {}
  /\ submitAttempts = [j \in Jobs |-> 0]
  /\ envKey = TRUE
  /\ delayOverride = [j \in Jobs |->
       IF j = 1 THEN Enqueued(1, DelaySeconds("empire")) ELSE NotEnqueued]

InitPoll ==
  /\ NoActiveTokens
  /\ PlanIdle
  /\ user = NoUser
  /\ OneJobSubmitted
  /\ PollIdle

NextPoll ==
  \/ \E j \in Jobs : ProcessSingleVideoFetch(j, TRUE)
  \/ \E j \in Jobs, outcome \in {"complete", "failed"} : OperationSettles(j, outcome)
  \/ \E j \in Jobs, reachable \in BOOLEAN : ProcessJobPoll(j, reachable)
  \/ \E j \in Jobs, ok \in BOOLEAN : ProcessJobUploaded(j, ok)
  \/ \E j \in Jobs, reachable \in BOOLEAN : CheckVideoStatusRoute(j, reachable)
  \/ \E j \in Jobs, ok \in BOOLEAN : UploadPromiseSettles(j, ok)
  \/ NextDay
  \/ CheckAndCleanupHistory

SpecPoll == InitPoll /\ [][NextPoll]_vars

(***************************************************************************)
(* Specification of the polling coordinator with the regenerate route      *)
(***************************************************************************)
NextRegen ==
  \/ \E j \in Jobs : ProcessSingleVideoFetch(j, TRUE)
  \/ \E j \in Jobs, outcome \in {"complete", "failed"} : OperationSettles(j, outcome)
  \/ \E j \in Jobs, reachable \in BOOLEAN : ProcessJobPoll(j, reachable)
  \/ \E j \in Jobs, ok \in BOOLEAN : ProcessJobUploaded(j, ok)
  \/ \E j \in Jobs : RegenerateVideo(j)
  \/ \E j \in Jobs, outcome \in {"accepted", "rejected", "thrown"} :
       RegenerateSubmit(j, outcome)
  \/ \E j \in Jobs, outcome \in {"complete", "nourl", "failed"} :
       RegenerationSettles(j, outcome)
  \/ \E j \in Jobs, reachable \in BOOLEAN : RegeneratePoll(j, reachable)
  \/ \E j \in Jobs, ok \in BOOLEAN : RegenerateUploaded(j, ok)

SpecRegen == InitPoll /\ [][NextRegen]_vars

(***************************************************************************)
(* Specification of the mid-flight token switch.  The first job of a bulk  *)
(* request was submitted with the first token, which getCurrentBatchToken  *)
(* had dispensed, and its worker has been started; the other tokens were   *)
(* never used and may be inactive or near the error threshold.             *)
(***************************************************************************)
InitSwitch ==
  /\ now = 1
  /\ lastUsedTokenIndex = 0
  /\ lruOrder = <<1>>
  /\ tokenCooldowns = [t \in Tokens |-> 0]
  /\ tx = [x \in Txs |-> IdleTx]
  /\ dispenses = 0
  /\ errorCalls = 0
  /\ tenthErrorAt = [t \in Tokens |-> None]
  /\ lastDispense = [op |-> "batch", token |-> 1, inCooldown |-> FALSE,
                     full |-> FALSE]
  /\ replaced = NotReplaced
  /\ apiTokens \in {[t \in Tokens |->
                        TokenRow(t, 0, t = 1 \/ a[t], IF t = 1 THEN 1 ELSE 0)] :
                      a \in [Tokens -> BOOLEAN]}
  /\ tokenErrorTracking \in [Tokens -> {<< >>, NineErrors(1)}]
  /\ PlanIdle
  /\ user = NoUser
  /\ videoHistory = [j \in Jobs |-> IF j = 1 THEN NewRow(UserId, "pending") ELSE NoRow]
  /\ bulkQueue = << >>
  /\ isProcessing = FALSE
  /\ pq = IdlePq
  /\ sv = [j \in Jobs |-> IF j = 1 THEN [IdleSv EXCEPT !.pc = "end"] ELSE IdleSv]
  /\ retryTimers = {}
  /\ submitAttempts = [j \in Jobs |-> IF j = 1 THEN 1 ELSE 0]
  /\ envKey = TRUE
  /\ delayOverride = [j \in Jobs |->
       IF j = 1 THEN Enqueued(1, DelaySeconds("empire")) ELSE NotEnqueued]
  /\ operation = [j \in Jobs |-> IF j = 1 THEN "pending" ELSE "none"]
  /\ pollingQueue = << >>
  /\ activeWorkers = 1
  /\ worker = [j \in Jobs |->
                 IF j = 1 THEN [IdleWorker EXCEPT !.pc = "sleep",
                                                  !.rotationToken = 1,
                                                  !.apiKey = 1]
                 ELSE IdleWorker]
  /\ regen = [j \in Jobs |-> NoRegen]
  /\ statusCheck = [j \in Jobs |-> 0]
  /\ cloudinaryUploadCache = [j \in Jobs |-> NoUpload]
  /\ uploads = [j \in Jobs |-> NoUploads]
  /\ routeCalls = [status |-> 0, regenerate |-> 0]

NextSwitch ==
  \/ \E j \in Jobs, outcome \in {"complete", "failed"} : OperationSettles(j, outcome)
  \/ \E j \in Jobs, reachable \in BOOLEAN : ProcessJobPoll(j, reachable)
  \/ \E j \in Jobs : ProcessJobRecordError(j)
  \/ \E j \in Jobs : ProcessJobRotate(j)
  \/ \E j \in Jobs, accepted \in BOOLEAN : ProcessJobResubmitted(j, accepted)
  \/ \E j \in Jobs, reachable \in BOOLEAN : ProcessJobCheck(j, reachable)
  \/ \E j \in Jobs, ok \in BOOLEAN : ProcessJobUploaded(j, ok)

SpecSwitch == InitSwitch /\ [][NextSwitch]_vars

(***************************************************************************)
(* Specification of the heartbeat of a polled job: the first job of a bulk *)
(* request is submitted and polled without an active token, the heartbeat  *)
(* of every iteration is a step of its own, and the clock moves by whole   *)
(* minutes between the steps (iterations less than a minute apart happen   *)
(* at the same instant).                                                   *)
(***************************************************************************)
MaxBeatNow == 4

NextHeartbeat ==
  \/ \E j \in Jobs : ProcessSingleVideoFetch(j, TRUE)
  \/ \E j \in Jobs, outcome \in {"complete", "failed"} : OperationSettles(j, outcome)
  \/ \E j \in Jobs, thrown \in BOOLEAN : ProcessJobHeartbeat(j, thrown)
  \/ \E j \in Jobs, reachable \in BOOLEAN :
       worker[j].beats = worker[j].attempts + 1 /\ ProcessJobPoll(j, reachable)
  \/ \E j \in Jobs, ok \in BOOLEAN : ProcessJobUploaded(j, ok)
  \/ now < MaxBeatNow /\ Tick(1)

SpecHeartbeat == InitPoll /\ [][NextHeartbeat]_vars

(***************************************************************************)
(* Specification of the daily cleanup job: the process starts in the last  *)
(* two minutes of FirstDay with lastCleanupDate = '' and runs over the     *)
(* next two midnights; a tick of the interval timer fires when the         *)
(* interval has elapsed or a quarter of a minute later.                    *)
(***************************************************************************)
MaxMidnights == 2
MaxAt == MaxMidnights * DAY + 2 * QUARTERS

InitCleanup ==
  /\ NoActiveTokens
  /\ today = FirstDay
  /\ userRows = 0
  /\ req = [r \in ReqSlots |-> IdleReq]
  /\ requests = 0
  /\ planChanges = 0
  /\ lastCleanupDate = None
  /\ planCheck = NoCheck
  /\ lastResponse = NoResponse
  /\ retry = NoRetry
  /\ interval \in {[at |-> at, runs |-> << >>] : at \in (DAY - 2 * QUARTERS)..(DAY - 1)}
  /\ user \in InitUsers
  /\ videoHistory = NoRows
  /\ QueueIdle
  /\ envKey = TRUE
  /\ PollIdle

NextCleanup ==
  \E late \in {0, 1} : CheckAndCleanupHistoryTick(late, MaxAt)

SpecCleanup == InitCleanup /\ [][NextCleanup]_vars

(***************************************************************************)
(* Specification of the worker pool of the polling coordinator.  The jobs  *)
(* are interchangeable for the pool: they are handed over in the order of  *)
(* their ids and the worker that proceeds is the oldest running one; the   *)
(* upstream service completes an operation before the worker's first       *)
(* status check (15 seconds after the handover) and the uploads succeed.   *)
(***************************************************************************)
\* the rows of a bulk request for every job, nothing handed over yet
InitWorkers ==
  /\ NoActiveTokens
  /\ PlanIdle
  /\ user = NoUser
  /\ videoHistory = [j \in Jobs |-> NewRow(UserId, "pending")]
  /\ QueueIdle
  /\ envKey = TRUE
  /\ PollIdle

Running(j) == worker[j].pc \in {"sleep", "upload"}

OldestRunning(j) == Running(j) /\ \A i \in 1..(j - 1) : ~Running(i)

NextAccepted(j) == operation[j] = "none" /\ \A i \in 1..(j - 1) : operation[i] # "none"

NextWorkers ==
  \/ \E j \in Jobs : NextAccepted(j) /\ StartBackgroundPolling(j)
  \/ \E j \in Jobs : OldestRunning(j) /\ OperationSettles(j, "complete")
  \/ \E j \in Jobs :
       OldestRunning(j) /\ operation[j] # "pending" /\ ProcessJobPoll(j, TRUE)
  \/ \E j \in Jobs : OldestRunning(j) /\ ProcessJobUploaded(j, TRUE)

SpecWorkers == InitWorkers /\ [][NextWorkers]_vars

(***************************************************************************)
(* Specification of the chunks of the submission queue.  The submissions   *)
(* of a chunk are interchangeable: the one that proceeds is the oldest in  *)
(* flight, and only the submission of the first job fails.                 *)
(***************************************************************************)
MaxSubmitted == 10

\* a processSingleVideo call that has not returned
InFlight(j) == sv[j].pc \in {"token", "fetch", "failRead", "failWrite"}

OldestInFlight(j) == InFlight(j) /\ \A i \in 1..(j - 1) : ~InFlight(i)

NextChunks ==
  \/ \E n \in {1, MAX_CONCURRENT + 1} : RowCount + n <= MaxSubmitted /\ AddToQueue(n, DelaySeconds("empire"))
  \/ ProcessQueueSettings
  \/ ProcessQueueLoop
  \/ ProcessQueueChunkDone
  \/ ProcessQueueDelay
  \/ \E j \in Jobs : OldestInFlight(j) /\ ProcessSingleVideoToken(j)
  \/ \E j \in Jobs : OldestInFlight(j) /\ ProcessSingleVideoFetch(j, j # 1)
  \/ \E j \in Jobs : OldestInFlight(j) /\ HandleVideoFailureRead(j)
  \/ \E j \in Jobs : OldestInFlight(j) /\ HandleVideoFailureWrite(j, FALSE)
  \/ \E j \in Jobs : RetryTimerFires(j)

\* a server with VEO3_API_KEY set
InitChunks == InitQueue /\ envKey

SpecChunks == InitChunks /\ [][NextChunks]_vars

(***************************************************************************)
(* Specification of withRetry: calls of withRetry with the default         *)
(* maxRetries, one after the other, whose operation returns or throws any  *)
(* of Errors at each invocation.                                           *)
(***************************************************************************)
NextRetry ==
  \/ WithRetryCalled
  \/ \E outcome \in {Ok} \cup Errors : WithRetryOperation(outcome)
  \/ WithRetryBackoff

SpecRetry == InitChunks /\ [][NextRetry]_vars

(***************************************************************************)
(* Specification of the batches of the submission queue: bulk requests of  *)
(* 12 prompts by users of the empire plan and of 2 prompts by users of the *)
(* scale plan, with the environment of the chunks above.                   *)
(***************************************************************************)
MaxBatched == 14

NextBatches ==
  \/ \E n \in {2, videosPerBatch + 2} :
       /\ RowCount + n <= MaxBatched
       /\ AddToQueue(n, DelaySeconds(IF n = 2 THEN "scale" ELSE "empire"))
  \/ ProcessQueueSettings
  \/ ProcessQueueLoop
  \/ ProcessQueueChunkDone
  \/ ProcessQueueDelay
  \/ \E j \in Jobs : OldestInFlight(j) /\ ProcessSingleVideoToken(j)
  \/ \E j \in Jobs : OldestInFlight(j) /\ ProcessSingleVideoFetch(j, j # 1)
  \/ \E j \in Jobs : OldestInFlight(j) /\ HandleVideoFailureRead(j)
  \/ \E j \in Jobs : OldestInFlight(j) /\ HandleVideoFailureWrite(j, FALSE)
  \/ \E j \in Jobs : RetryTimerFires(j)

SpecBatches == InitChunks /\ [][NextBatches]_vars

(***************************************************************************)
(* Specification of the plan checks as functions of the user row: the user *)
(* is any row of UserValues, and the checks are called with every tool and *)
(* with the prompt counts of BulkCounts.                                   *)
(***************************************************************************)
Tools == {"veo", "bulk", "script", "textToImage", "imageToVideo"}

\* prompt counts around the maxPrompts of the plans
BulkCounts == {0, 1, 2, 49, 50, 51, 99, 100, 101}

\* daily counts that leave 0, 1, 2, 49 .. 51 and 99 .. 101 videos of a paid
\* plan, and counts at and above its limit
DailyCounts ==
  {0} \cup {DailyVideoLimit(p) - r : p \in {"scale", "empire"},
                                     r \in BulkCounts \cup {-1}}

\* users rows; "unknown" is a planType that is not a key of PLAN_CONFIGS
UserValues ==
  [isAdmin : BOOLEAN, planType : PlanTypes \cup {"unknown"},
   planExpiry : {None, FirstDay - 1, FirstDay, FirstDay + 1},
   dailyVideoCount : DailyCounts, dailyResetDate : {FirstDay}]

PlanCheckCalled(fn, tool, n, result) ==
  /\ planCheck' = [fn |-> fn, tool |-> tool, n |-> n, result |-> result]
  /\ UNCHANGED <<now, tokenVars, queueVars, pollVars, videoHistory, today, user,
                 userRows, req, requests, planChanges, lastCleanupDate,
                 lastResponse, retry, interval>>

IsPlanExpiredCalled ==
  PlanCheckCalled("isPlanExpired", "none", 0, IsPlanExpired(user, today))

CanAccessToolCalled(tool) ==
  PlanCheckCalled("canAccessTool", tool, 0, CanAccessTool(user, tool, today))

CanGenerateVideoCalled ==
  PlanCheckCalled("canGenerateVideo", "none", 0, CanGenerateVideo(user, today))

CanBulkGenerateCalled(n) ==
  PlanCheckCalled("canBulkGenerate", "bulk", n, CanBulkGenerate(user, n, today))

GetBatchConfigCalled ==
  PlanCheckCalled("getBatchConfig", "none", 0, GetBatchConfig(user))

InitChecks ==
  /\ NoActiveTokens
  /\ PlanIdle
  /\ user \in UserValues
  /\ videoHistory = NoRows
  /\ QueueIdle
  /\ envKey = TRUE
  /\ PollIdle

NextChecks ==
  \/ IsPlanExpiredCalled
  \/ \E tool \in Tools : CanAccessToolCalled(tool)
  \/ CanGenerateVideoCalled
  \/ \E n \in BulkCounts : CanBulkGenerateCalled(n)
  \/ GetBatchConfigCalled

SpecChecks == InitChecks /\ [][NextChecks]_vars

(***************************************************************************)
(* Specification of the users row: a user is created and an administrator *)
(* changes and removes the plan, over two days.                            *)
(***************************************************************************)
MaxUserChanges == 3

InitNoUser ==
  /\ NoActiveTokens
  /\ PlanIdle
  /\ user = NoUser
  /\ videoHistory = NoRows
  /\ QueueIdle
  /\ envKey = TRUE
  /\ PollIdle

NextUsers ==
  \/ \E insertUser \in InsertUsers : CreateUser(insertUser)
  \/ \E plan \in PlanUpdates :
       user # NoUser /\ planChanges < MaxUserChanges /\ UpdateUserPlan(plan)
  \/ user # NoUser /\ planChanges < MaxUserChanges /\ RemovePlan
  \/ NextDay

SpecUsers == InitNoUser /\ [][NextUsers]_vars

(***************************************************************************)
(* Specification of the administration of the token pool: dispenses, one   *)
(* at a time, recorded errors, cooldowns that end, tokens switched on and  *)
(* off, and replaceAllTokens with lists of one and two credentials.  Two   *)
(* history rows name the tokens they used.                                 *)
(***************************************************************************)
MaxReplaces == 2
Credentials == 1..NumTokens

\* the lists replaceAllTokens is called with
TokenLists == UNION {[1..n -> Credentials] : n \in 1..NumTokens}

InitPool ==
  /\ TokensIdle
  /\ apiTokens \in TokenRows(InitBatchCounts)
  /\ tokenErrorTracking \in {[t \in Tokens |-> << >>],
                              [t \in Tokens |-> IF t = NumTokens THEN NineErrors(1)
                                                ELSE << >>]}
  /\ PlanIdle
  /\ user = NoUser
  /\ videoHistory = [j \in Jobs |->
       IF j \in Tokens THEN [NewRow(UserId, "completed") EXCEPT !.tokenUsed = j]
       ELSE NoRow]
  /\ QueueIdle
  /\ envKey = TRUE
  /\ PollIdle

NextPool ==
  \/ \E x \in Txs : (\A y \in Txs : tx[y].pc = "idle") /\ TxBegin(x)
  \/ \E x \in Txs : TxFilter(x)
  \/ \E x \in Txs : TxLockCur(x)
  \/ \E x \in Txs : TxLockNext(x)
  \/ \E x \in Txs : TxCommit(x)
  \/ \E t \in Tokens : errorCalls < MaxErrorCalls /\ RecordTokenError(t)
  \/ \E t \in Tokens, a \in BOOLEAN :
       (\A y \in Txs : tx[y].pc = "idle") /\ ToggleApiTokenStatus(t, a)
  \/ \E tokens \in TokenLists :
       replaced.calls < MaxReplaces /\ ReplaceAllTokens(tokens)
  \/ \E d \in 1..MaxNow : now + d \in Instants /\ Tick(d)

SpecPool == InitPool /\ [][NextPool]_vars

(***************************************************************************)
(* Specification of dispenses next to the deletion of tokens: two          *)
(* getCurrentBatchToken transactions interleave at their awaits with each   *)
(* other and with the DELETE /api/tokens/:id route.                         *)
(***************************************************************************)
NextDelete ==
  \/ \E x \in Txs : TxBegin(x)
  \/ \E x \in Txs : TxFilter(x)
  \/ \E x \in Txs : TxLockCur(x)
  \/ \E x \in Txs : TxLockNext(x)
  \/ \E x \in Txs : TxCommit(x)
  \/ \E t \in Tokens : DeleteApiToken(t)
  \/ \E t \in Tokens : errorCalls < MaxErrorCalls /\ RecordTokenError(t)
  \/ \E d \in TickSteps : Tick(d)

SpecDelete == InitTokens /\ [][NextDelete]_vars

\* C1: every active token has 0 <= currentBatchCount <= BATCH_SIZE in every
\* reachable state of the token pool.
C1_BatchCountWithinBatchSize ==
  \A t \in Tokens :
    apiTokens[t].isActive =>
      (0 <= apiTokens[t].currentBatchCount /\
       apiTokens[t].currentBatchCount <= BATCH_SIZE)

\* C2: a dispense never returns a token that had already served BATCH_SIZE
\* dispenses since its counter was last reset, unless that token is the only
\* active token that is not in cooldown.
C2_FullTokenNotDispensed == lastDispense.op = "batch" => ~lastDispense.full

\* C4: the daily count of a user who is not an admin never exceeds the daily
\* video limit of the user's plan, whatever the interleaving of the user's
\* bulk-generate and video-history requests (stated for the runs in which the
\* admin leaves the user's plan as it is).
C4_DailyCountWithinLimit ==
  (~user.isAdmin /\ planChanges = 0) =>
    user.dailyVideoCount <= DailyVideoLimit(user.planType)

\* C8: a request of a user who is not an admin, whose plan is not free and
\* whose planExpiry is in the past when the request reads the user is rejected
\* (403) at every submission entry point (bulk generate, single video,
\* image-to-video, saving a video-history entry), creates no video_history row
\* and increments no daily count.
C8_ExpiredUserRejected ==
  /\ \A r \in ReqSlots :
       req[r].expired =>
         (req[r].pc = "check" /\ req[r].rows = 0 /\ req[r].incs = 0)
  /\ lastResponse.expired => (lastResponse.code = 403 /\ ~lastResponse.wrote)

\* an expired user's bulk-generate request has been answered with 403
C8_ExpiredBulkRejected ==
  /\ lastResponse.expired
  /\ lastResponse.kind = "bulk"
  /\ lastResponse.code = 403

\* C3: no dispense (getCurrentBatchToken, getNextRotationToken, getTokenByIndex)
\* returns a token that is in cooldown at the moment it returns.
C3_NoCooldownTokenReturned == ~lastDispense.inCooldown

\* C6: for every job the submission queue makes at most MAX_RETRIES + 1
\* upstream submit attempts (the first one and MAX_RETRIES retries), and the
\* retryCount of its row never exceeds MAX_RETRIES.
C6_AtMostThreeSubmitAttempts ==
  \A j \in Jobs :
    /\ submitAttempts[j] <= MAX_RETRIES + 1
    /\ videoHistory[j].retryCount <= MAX_RETRIES

\* C10: every job added with addToQueue is eventually accepted upstream and
\* handed to the polling coordinator, or its row is marked failed (stated for
\* a server that has an API key, whose submit attempts reach the upstream
\* service).
C10_QueuedJobSettles ==
  \A j \in Jobs :
    (envKey /\ videoHistory[j].exists) ~>
      (operation[j] # "none" \/ videoHistory[j].status = "failed")

\* C5: once the row of a job has status completed or failed, no step changes
\* its status or its videoUrl.
C5_TerminalRowImmutable ==
  [][\A j \in Jobs :
       (videoHistory[j].exists /\ IsTerminal(videoHistory[j].status)
          /\ videoHistory'[j].exists) =>
         (/\ videoHistory'[j].status = videoHistory[j].status
          /\ videoHistory'[j].videoUrl = videoHistory[j].videoUrl)]_vars

\* C7: for the sceneId of every job at most one media upload is started and
\* at most one hosted URL is produced, also when a polling-coordinator worker
\* and check-video-status requests see the completion of the same scene.
C7_OneUploadPerScene ==
  \A j \in Jobs : uploads[j].started <= 1 /\ uploads[j].hosted <= 1

\* C9: a worker of the polling coordinator makes at most MAX_ATTEMPTS status
\* checks and does not end without having written completed or failed to the
\* row of its job.
C9_WorkerEndsWithTerminalStatus ==
  \A j \in Jobs :
    /\ worker[j].attempts <= MAX_ATTEMPTS
    /\ worker[j].pc = "done" => worker[j].wrote

\* C11: in every reachable state 0 <= activeWorkers <= MAX_CONCURRENT_WORKERS,
\* for any sequence of enqueueStatusCheck calls and worker completions.
C11_ActiveWorkersWithinCap ==
  0 <= activeWorkers /\ activeWorkers <= MAX_CONCURRENT_WORKERS

\* a worker has ended while the pool was full and a job waited in the queue
C11_FullPoolAfterCompletion ==
  /\ activeWorkers = MAX_CONCURRENT_WORKERS
  /\ \E j \in Jobs : worker[j].pc = "done"
  /\ \A j \in Jobs : operation[j] # "none"

\* C12: at every moment at most MAX_CONCURRENT submissions of the submission
\* queue are in flight, and a submission starts only when no submission of an
\* earlier chunk is still in flight, also when addToQueue is called or a
\* retry is re-enqueued while a batch is being processed.
C12_ChunksOfEight ==
  /\ [](Cardinality({j \in Jobs : InFlight(j)}) <= MAX_CONCURRENT)
  /\ [][(\E j \in Jobs : ~InFlight(j) /\ InFlight(j)') =>
          (\A i \in Jobs : ~InFlight(i))]_vars

\* the second chunk of a batch is in flight after a retry was re-enqueued
\* and addToQueue was called while the batch was being processed
C12_SecondChunkInFlight ==
  /\ pq.pc = "chunk"
  /\ 1 \notin pq.chunk
  /\ \E j \in pq.chunk : InFlight(j)
  /\ \A j \in 2..MAX_CONCURRENT : operation[j] = "pending"
  /\ Len(bulkQueue) >= 2

\* C13: whatever the interleaving of concurrent getCurrentBatchToken calls,
\* every call that returns a token adds exactly one to that token's
\* totalGenerated and nothing else changes a totalGenerated, so the growth of
\* each token equals the number of calls that returned it.
C13_EveryDispenseCountedOnce ==
  [][\A t \in Tokens :
       apiTokens'[t].totalGenerated =
         apiTokens[t].totalGenerated +
           (IF /\ \E x \in Txs : tx[x].pc = "commit" /\ tx'[x].pc = "idle"
               /\ lastDispense'.token = t
            THEN 1 ELSE 0)]_vars

\* a call has returned a token and, of two concurrent calls, one holds the row
\* lock of a token the other waits for
C13_ConcurrentDispenses ==
  /\ lastDispense.op = "batch"
  /\ lastDispense.token # None
  /\ \E x \in Txs : tx[x].pc = "lockCur" /\ ~LockFree(x, tx[x].cur)

(***************************************************************************)
(* C14: a token that isTokenInCooldown reports as not in cooldown is in    *)
(* cooldown after a step exactly when that step is a recordTokenError call *)
(* for it that brings the errors recorded within the last 20 minutes to    *)
(* ERROR_THRESHOLD (10): nine or fewer leave it out of cooldown, and       *)
(* errors older than 20 minutes are not counted.                           *)
(***************************************************************************)
C14_CooldownStartsAtTenthError ==
  [][\A t \in Tokens :
       ~IsTokenInCooldown(tokenCooldowns, t, now) =>
         LET recorded == /\ errorCalls' = errorCalls + 1
                         /\ tokenErrorTracking'[t] # tokenErrorTracking[t]
             inWindow == Cardinality({i \in DOMAIN tokenErrorTracking[t] :
                            now - tokenErrorTracking[t][i] < ERROR_WINDOW_MS})
         IN IsTokenInCooldown(tokenCooldowns', t, now') <=>
              (recorded /\ inWindow + 1 = ERROR_THRESHOLD)]_vars

\* one token went into cooldown at its tenth error; another, with eight errors
\* older than 20 minutes, has had a new error recorded and is not in cooldown
C14_TenthErrorAndStaleErrors ==
  \E t, u \in Tokens :
    /\ tenthErrorAt[t] # None
    /\ IsTokenInCooldown(tokenCooldowns, t, now)
    /\ now = ERROR_WINDOW_MS + 1
    /\ tokenErrorTracking[u] = <<now>>
    /\ tokenCooldowns[u] = 0

(***************************************************************************)
(* C15: when the tenth error of a token within 20 minutes was recorded at  *)
(* time T, a getCurrentBatchToken call that filters the tokens at a time   *)
(* >= T + COOLDOWN_DURATION_MS keeps that token among the available ones   *)
(* and finds its error history empty, whatever was called in between.      *)
(***************************************************************************)
C15_AvailableTwoHoursAfterTenthError ==
  [][\A x \in Txs, t \in Tokens :
       (/\ tx[x].pc = "settings"
        /\ tx'[x].pc # "settings"
        /\ apiTokens[t].isActive
        /\ tenthErrorAt[t] # None
        /\ now >= tenthErrorAt[t] + COOLDOWN_DURATION_MS)
       => /\ t \in SeqRange(tx'[x].availableTokens)
          /\ tokenErrorTracking'[t] = << >>]_vars

(***************************************************************************)
(* C16: getNextRotationToken returns no token exactly when every active    *)
(* token is in cooldown or has at least ERROR_THRESHOLD - 1 errors in the  *)
(* last 20 minutes; otherwise the token it returns is active, is neither,  *)
(* and no other such token was used less recently (a token that was never  *)
(* used counts as used less recently than any token that was).             *)
(***************************************************************************)
C16_LeastRecentlyUsedEligible ==
  [][(lastDispense'.op = "next" /\ UNCHANGED <<tx, errorCalls, lruOrder, now>>) =>
       LET nearThreshold(t) ==
             Cardinality({i \in DOMAIN tokenErrorTracking[t] :
                 now - tokenErrorTracking[t][i] < ERROR_WINDOW_MS})
               >= ERROR_THRESHOLD - 1
           eligible == {t \in Tokens :
                          /\ apiTokens[t].isActive
                          /\ ~IsTokenInCooldown(tokenCooldowns, t, now)
                          /\ ~nearThreshold(t)}
           used == SeqRange(lruOrder)
           pos(t) == CHOOSE i \in DOMAIN lruOrder : lruOrder[i] = t
           usedBefore(o, t) ==
             \/ o \notin used /\ t \in used
             \/ o \in used /\ t \in used /\ pos(o) < pos(t)
           r == lastDispense'.token
       IN /\ (r = None) <=> (eligible = {})
          /\ r # None => /\ r \in eligible
                         /\ \A o \in eligible : ~usedBefore(o, r)]_vars

(***************************************************************************)
(* C17: when the k-th submission of a job has failed (k = 1, 2) and the    *)
(* retry is scheduled, the row has retryCount = k and an errorMessage      *)
(* ending "(Retry k/2)"; a job accepted after two failed submissions keeps *)
(* retryCount = 2.                                                         *)
(***************************************************************************)
C17_RetryCountStored ==
  \A j \in Jobs :
    /\ (/\ envKey
        /\ j \in retryTimers
        /\ submitAttempts[j] \in 1..MAX_RETRIES)
       => /\ videoHistory[j].retryCount = submitAttempts[j]
          /\ videoHistory[j].errorMessage = Message("Retry", submitAttempts[j])
    /\ (/\ envKey
        /\ operation[j] # "none"
        /\ submitAttempts[j] = MAX_RETRIES + 1)
       => videoHistory[j].retryCount = MAX_RETRIES

(***************************************************************************)
(* C20: a worker whose job's upstream operation has reported neither       *)
(* completion nor an error ends only after exactly MAX_ATTEMPTS (240)      *)
(* status checks, and then the row of the job is failed with the           *)
(* "timed out" errorMessage; no step of a worker changes a retryCount.     *)
(***************************************************************************)
C20_TimedOutAfterMaxAttempts ==
  [][\A j \in Jobs :
       /\ (worker[j].pc # "done" /\ worker'[j].pc = "done" /\ operation[j] = "pending")
          => /\ worker'[j].attempts = MAX_ATTEMPTS
             /\ videoHistory'[j].status = "failed"
             /\ videoHistory'[j].errorMessage = Message("timed out", MAX_ATTEMPTS)
       /\ worker' # worker => videoHistory'[j].retryCount = videoHistory[j].retryCount]_vars

(***************************************************************************)
(* C18 as stated: retryWithNewToken is called at most once per polled job, *)
(* and only when RETRY_ATTEMPT (8) status checks have returned, before the *)
(* ninth status request.                                                   *)
(***************************************************************************)
C18_SwitchAfterEightPolls ==
  \A j \in Jobs :
    /\ worker[j].retries <= 1
    /\ worker[j].retries = 1 => worker[j].retriedAfter = RETRY_ATTEMPT

(***************************************************************************)
(* C18, amended: retryWithNewToken is called at most once per polled job,  *)
(* and only when RETRY_ATTEMPT - 1 (7) status checks have returned, before *)
(* the eighth status request.                                              *)
(***************************************************************************)
C18_SwitchBeforeEighthCheck ==
  \A j \in Jobs :
    /\ worker[j].retries <= 1
    /\ worker[j].retries = 1 => worker[j].retriedAfter = RETRY_ATTEMPT - 1

\* a job was switched to another token and is polled on
C18_SwitchedAndPolledOn ==
  \E j \in Jobs :
    /\ worker[j].retries = 1
    /\ worker[j].hasRetriedWithNewToken
    /\ worker[j].attempts > RETRY_ATTEMPT
    /\ worker[j].pc = "sleep"

(***************************************************************************)
(* C19: after a successful switch of a job to another token the row's      *)
(* tokenUsed is that token's id, and the job's operationName and sceneId   *)
(* are those of the resubmission and its credential is that token's, so    *)
(* that every later status check uses them.                                *)
(***************************************************************************)
C19_SwitchPersisted ==
  \A j \in Jobs :
    worker[j].hasRetriedWithNewToken =>
      /\ videoHistory[j].tokenUsed = worker[j].rotationToken
      /\ worker[j].operationName = 1
      /\ worker[j].sceneId = 1
      /\ worker[j].apiKey = worker[j].rotationToken

(***************************************************************************)
(* C21: a job that is in the submission queue does not have status         *)
(* pending (addToQueue has set it to queued), and a row becomes completed  *)
(* or failed only from status queued.                                      *)
(***************************************************************************)
C21_QueuedStatusInQueue ==
  [][\A j \in Jobs :
       /\ j \in SeqRange(bulkQueue') => videoHistory'[j].status # "pending"
       /\ (~IsTerminal(videoHistory[j].status) /\ IsTerminal(videoHistory'[j].status))
          => videoHistory[j].status = "queued"]_vars

(***************************************************************************)
(* C22: the batch processQueue forms is the first                          *)
(* min(videosPerBatch, queue length) jobs of the submission queue, which   *)
(* leave the queue; otherwise the queue only grows at its tail, so every   *)
(* job of a batch was enqueued before every job of a later batch.          *)
(***************************************************************************)
C22_BatchIsQueueHead ==
  [][IF pq.pc = "loop" /\ pq'.pc = "chunk"
     THEN LET k == IF Len(bulkQueue) < videosPerBatch THEN Len(bulkQueue)
                   ELSE videosPerBatch
              batch == pq'.chunk \cup SeqRange(pq'.batch)
          IN /\ batch = {bulkQueue[i] : i \in 1..k}
             /\ Cardinality(batch) = k
             /\ bulkQueue' = SubSeq(bulkQueue, k + 1, Len(bulkQueue))
     ELSE /\ Len(bulkQueue') >= Len(bulkQueue)
          /\ SubSeq(bulkQueue', 1, Len(bulkQueue)) = bulkQueue]_vars

\* of 12 jobs queued by one request the first 10 have been submitted as one
\* batch and the other 2 are the batch in flight
C22_BatchesOfTenAndTwo ==
  /\ pq.pc = "chunk"
  /\ pq.chunk = {videosPerBatch + 1, videosPerBatch + 2}
  /\ pq.batch = << >>
  /\ \A j \in 1..videosPerBatch : submitAttempts[j] >= 1
  /\ submitAttempts[videosPerBatch + 1] = 0

(***************************************************************************)
(* C23: while processQueue pauses between two batches that both hold jobs  *)
(* of one bulk submission, the pause is the delaySeconds addToQueue was    *)
(* called with for that submission.                                        *)
(***************************************************************************)
C23_PauseIsSubmissionDelay ==
  pq.pc = "delay" =>
    \A j \in pq.processed :
      \A i \in 1..BatchSize(bulkQueue) :
        (delayOverride[j].first # 0 /\ delayOverride[bulkQueue[i]] = delayOverride[j])
        => pq.batchDelaySeconds = delayOverride[j].delaySeconds

(***************************************************************************)
(* C24: for a user who is not an administrator canBulkGenerate(u, n)       *)
(* allows exactly when the plan is not expired, "bulk" is a tool of the    *)
(* plan, n <= maxPrompts and n <= max(0, dailyVideoLimit - dailyVideoCount);*)
(* the reason of a denial is that of the first of these checks that fails. *)
(***************************************************************************)
C24_BulkAllowedIff ==
  (planCheck.fn = "canBulkGenerate" /\ ~user.isAdmin) =>
    LET n == planCheck.n
        known == user.planType \in PlanTypes
        expired == /\ user.planType # "free"
                   /\ user.planExpiry # None
                   /\ today > user.planExpiry
        tool == known /\ "bulk" \in AllowedTools(user.planType)
        prompts == n <= MaxPrompts(user.planType)
        left == DailyVideoLimit(user.planType) - user.dailyVideoCount
        quota == n <= (IF left > 0 THEN left ELSE 0)
        result == planCheck.result
    IN /\ ~result.raised
       /\ result.allowed <=> (~expired /\ tool /\ prompts /\ quota)
       /\ ~result.allowed =>
            result.reason =
              IF expired THEN "expired"
              ELSE IF ~known THEN "invalidPlan"
              ELSE IF ~tool THEN "tool"
              ELSE IF ~prompts THEN "maxPrompts"
              ELSE "dailyLimit"

\* a bulk request within maxPrompts is denied for the remaining videos alone
C24_DeniedForQuotaAlone ==
  /\ planCheck.fn = "canBulkGenerate"
  /\ ~user.isAdmin
  /\ user.planType = "scale"
  /\ user.planExpiry = FirstDay + 1
  /\ planCheck.n = MaxPrompts("scale")
  /\ user.dailyVideoCount = DailyVideoLimit("scale") - MaxPrompts("scale") + 1
  /\ planCheck.result = Denied("dailyLimit")

(***************************************************************************)
(* C25: for an administrator, whatever the plan type, the plan expiry and  *)
(* the daily count: isPlanExpired is false, canAccessTool (every tool),    *)
(* canGenerateVideo and canBulkGenerate (every count) allow, and           *)
(* getBatchConfig is the bulk configuration of the empire plan.            *)
(***************************************************************************)
C25_AdminAlwaysAllowed ==
  user.isAdmin =>
    /\ planCheck.fn = "isPlanExpired" => planCheck.result = FALSE
    /\ planCheck.fn \in {"canAccessTool", "canGenerateVideo", "canBulkGenerate"} =>
         planCheck.result.allowed /\ ~planCheck.result.raised
    /\ planCheck.fn = "getBatchConfig" =>
         planCheck.result = [maxBatch |-> 10, delaySeconds |-> 10, maxPrompts |-> 100]

\* an administrator whose row holds the free plan and a past expiry gets the
\* empire configuration
C25_AdminOnFreePlanGetsEmpire ==
  /\ user.isAdmin
  /\ user.planType = "free"
  /\ user.planExpiry = FirstDay - 1
  /\ planCheck.fn = "getBatchConfig"
  /\ planCheck.result.delaySeconds = 10

(***************************************************************************)
(* C28: for every users row canAccessTool, canGenerateVideo and            *)
(* canBulkGenerate return a result and never raise, and a result that does *)
(* not allow carries a reason.                                             *)
(***************************************************************************)
C28_ChecksNeverRaise ==
  planCheck.fn \in {"canAccessTool", "canGenerateVideo", "canBulkGenerate"} =>
    /\ ~planCheck.result.raised
    /\ ~planCheck.result.allowed => planCheck.result.reason # "none"

(***************************************************************************)
(* C29: a users row written by createUser, updateUserPlan and removePlan   *)
(* has a null planExpiry exactly when its plan is free or the user is an   *)
(* administrator, and its dailyVideoCount is not negative.                 *)
(***************************************************************************)
C29_ExpiryNullIffFreeOrAdmin ==
  user # NoUser =>
    /\ user.planExpiry = None <=> (user.planType = "free" \/ user.isAdmin)
    /\ user.dailyVideoCount >= 0

(***************************************************************************)
(* C26: each application of replaceAllTokens with a duplicate-free list X  *)
(* leaves the token set that X alone determines - the credentials of X in  *)
(* input order, labels Token 1 .. n, all active, batch counters 0 - so a   *)
(* second application with the same X leaves the same set as the first,    *)
(* and after each application no history row names a token.                *)
(***************************************************************************)
C26_ReplaceIdempotent ==
  [][replaced'.calls # replaced.calls =>
       LET X == replaced'.tokens
       IN /\ \A t \in Tokens :
               IF t <= Len(X)
               THEN /\ apiTokens'[t].token = X[t]
                    /\ apiTokens'[t].label = t
                    /\ apiTokens'[t].isActive
                    /\ apiTokens'[t].currentBatchCount = 0
               ELSE apiTokens'[t].token = None
          /\ \A j \in Jobs : videoHistory'[j].tokenUsed = None]_vars

\* replaceAllTokens has been applied twice with the same list of one
\* credential, after a dispense
C26_AppliedTwice ==
  /\ replaced.calls = 2
  /\ replaced.previous = replaced.tokens
  /\ Len(replaced.tokens) = 1
  /\ dispenses >= 1
  /\ apiTokens[1].token = replaced.tokens[1]
  /\ apiTokens[NumTokens].token = None

(***************************************************************************)
(* C30: at every dispense the cursor lastUsedTokenIndex read by            *)
(* getCurrentBatchToken is in [0, N_active), N_active being the number of  *)
(* active tokens not in cooldown that the dispense finds.                  *)
(***************************************************************************)
C30_CursorInRange ==
  \A x \in Txs :
    tx[x].pc \in {"lockCur", "lockNext", "commit"} =>
      /\ tx[x].currentIndex >= 0
      /\ tx[x].currentIndex < Len(tx[x].availableTokens)

(***************************************************************************)
(* C27: when uploadVideoToCloudinary throws for a completed job (its       *)
(* network retries are used up, or the error is not retryable), the worker *)
(* sets the job's row to failed.                                           *)
(***************************************************************************)
C27_FailedUploadFailsJob ==
  [][\A j \in Jobs :
       (/\ worker[j].pc = "upload"
        /\ worker'[j].pc # "upload"
        /\ uploads'[j] = uploads[j]
        /\ videoHistory[j].exists)
       => videoHistory'[j].status = "failed"]_vars

(***************************************************************************)
(* C31: one processor loop of the submission queue runs at a time (the     *)
(* flag is set exactly while it runs and a loop starts only when none      *)
(* runs); whenever the queue is non-empty the flag is set; the flag is     *)
(* cleared only when the queue is empty; and a job in the queue - enqueued *)
(* by a request or by a retry timer, at any position of the loop - is      *)
(* eventually dequeued.                                                    *)
(***************************************************************************)
C31_OneLoopDrainsQueue ==
  /\ [](isProcessing <=> pq.pc # "idle")
  /\ [](Len(bulkQueue) > 0 => isProcessing)
  /\ [][(pq'.pc = "settings" /\ pq' # pq) => (pq.pc = "idle" /\ ~isProcessing)]_vars
  /\ [][(isProcessing /\ ~isProcessing') => Len(bulkQueue') = 0]_vars
  /\ \A j \in 1..MaxQueued :
       (j \in SeqRange(bulkQueue)) ~> (j \notin SeqRange(bulkQueue))

\* a job was enqueued while the loop awaited a chunk: the loop sleeps
\* before the next batch with that job in the queue
C31_EnqueuedWhileRunning ==
  /\ pq.pc = "delay"
  /\ pq.processed # {}
  /\ Len(bulkQueue) > 0
  /\ isProcessing

C33_FailedSwitchKeepsToken ==
  \A j \in Jobs :
    (/\ worker[j].retries = 1
     /\ worker[j].pc \in {"check", "sleep", "upload", "done"}
     /\ ~worker[j].hasRetriedWithNewToken)
    => /\ worker[j].apiKey = 1
       /\ worker[j].rotationToken = 1
       /\ worker[j].operationName = 0
       /\ worker[j].sceneId = 0

(***************************************************************************)
(* C34: when the upload promise of a sceneId in cloudinaryUploadCache      *)
(* settles, a failed upload leaves no entry and a successful one leaves    *)
(* the entry with its hosted URL; an entry of a successful upload never    *)
(* changes and a check-video-status request that finds it starts no        *)
(* upload; a request that puts a new entry has started a new upload.       *)
(***************************************************************************)
C34_FailedUploadLeavesCache ==
  [][\A j \in Jobs :
       LET entry == cloudinaryUploadCache[j]
           entryAfter == cloudinaryUploadCache'[j]
           called == routeCalls'.status # routeCalls.status
       IN /\ (entry.state = "pending" /\ entryAfter # entry) =>
               IF uploads'[j].hosted # uploads[j].hosted
               THEN /\ entryAfter.state = "resolved"
                    /\ entryAfter.url = CloudinaryUrl(j, "bulk", uploads'[j].hosted)
               ELSE entryAfter = NoUpload
          /\ entry.state = "resolved" => entryAfter = entry
          /\ (called /\ entry.state = "resolved") => uploads'[j] = uploads[j]
          /\ (entry.state = "none" /\ entryAfter # entry) =>
               /\ called
               /\ entryAfter.state = "pending"
               /\ uploads'[j] = UploadStarted(uploads[j])]_vars

\* the first upload a check-video-status request started has failed and a
\* later request has started a second one, which succeeded and is kept; the
\* worker of the job has not polled yet
C34_RetriedUploadKept ==
  /\ worker[1].attempts = 0
  /\ uploads[1].started = 2
  /\ uploads[1].hosted = 1
  /\ cloudinaryUploadCache[1].state = "resolved"

(***************************************************************************)
(* C35: an iteration of a polled job whose heartbeat is due (no heartbeat  *)
(* yet, or at least HEARTBEAT_INTERVAL_MS since the last one) and whose    *)
(* storage call returns sets the updatedAt of the job's row to the current *)
(* time, and two heartbeat writes of a job are at least                    *)
(* HEARTBEAT_INTERVAL_MS apart.                                            *)
(***************************************************************************)
C35_HeartbeatRefreshesRow ==
  [][\A j \in Jobs :
       /\ (/\ worker'[j].beats = worker[j].beats + 1
           /\ ShouldUpdate(worker[j].lastDbUpdate)
           /\ worker'[j].lastDbUpdate = now
           /\ videoHistory[j].exists)
          => videoHistory'[j].updatedAt = now
       /\ (/\ worker'[j].lastDbUpdate # worker[j].lastDbUpdate
           /\ worker[j].lastDbUpdate # None)
          => worker'[j].lastDbUpdate - worker[j].lastDbUpdate >= HEARTBEAT_INTERVAL_MS]_vars

(***************************************************************************)
(* C36: withRetry invokes the operation at most 5 times; every invocation  *)
(* that is followed by another one threw a transient connection error; a   *)
(* successful invocation is the last one and its result is returned; an    *)
(* error that is not transient is the last invocation and is thrown; the   *)
(* error of the 5th invocation is thrown.                                  *)
(***************************************************************************)
C36_AtMostFiveInvocations ==
  LET n == Len(retry.calls)
      transient == {ConnectionTerminated, ConnectionReset, AdminShutdown}
  IN /\ n <= 5
     /\ \A i \in 1..(n - 1) : retry.calls[i] \in transient
     /\ retry.pc = "backoff" => (n < 5 /\ retry.calls[n] \in transient)
     /\ retry.pc = "call" => n = retry.attempt
     /\ retry.pc = "returned" => (retry.calls[n] = Ok /\ retry.settled = Ok)
     /\ retry.pc = "thrown" =>
          /\ retry.calls[n] # Ok
          /\ retry.settled = retry.calls[n]
          /\ retry.calls[n] \in transient => n = 5

\* the fifth invocation has thrown a transient error, which withRetry throws
C36_FifthErrorThrown ==
  /\ retry.pc = "thrown"
  /\ Len(retry.calls) = 5
  /\ retry.settled = ConnectionReset

(***************************************************************************)
(* C37: the daily cleanup job calls checkAndResetDailyCounts once for      *)
(* every date: no date appears twice among its runs, and once the midnight *)
(* minute of a date has passed while the process was running the date is   *)
(* among them.                                                             *)
(***************************************************************************)
C37_ResetOncePerDate ==
  /\ \A i, k \in 1..Len(interval.runs) : i # k => interval.runs[i] # interval.runs[k]
  /\ \A d \in 1..MaxMidnights :
       interval.at >= d * DAY + QUARTERS =>
         \E i \in 1..Len(interval.runs) : interval.runs[i] = FirstDay + d


\* C38: a getCurrentBatchToken call that returns a token without a rollover
\* changes only that token's row (currentBatchCount + 1, totalGenerated + 1,
\* lastUsedAt) and leaves lastUsedTokenIndex and every other row unchanged; a
\* rollover changes only the completed token (counter to 0), the next token
\* (counters + 1; one row when the two coincide) and the cursor; a call that
\* returns no token changes no row, no timestamp and not the cursor.
C38_DispenseChangesOnlyItsRows ==
  [][\A x \in Txs :
       (tx[x].pc # "idle" /\ tx'[x].pc = "idle") =>
         LET res == lastDispense'.token
             cur == tx[x].cur
         IN IF res = None
            THEN /\ apiTokens' = apiTokens
                 /\ lastUsedTokenIndex' = lastUsedTokenIndex
                 /\ lruOrder' = lruOrder
            ELSE IF ~tx[x].rollover
            THEN /\ apiTokens' = Incremented(apiTokens, res)
                 /\ lastUsedTokenIndex' = lastUsedTokenIndex
                 /\ lruOrder' = Touch(lruOrder, res)
            ELSE /\ \A t \in Tokens \ {cur, res} : apiTokens'[t] = apiTokens[t]
                 /\ apiTokens'[res] =
                      [apiTokens[res] EXCEPT
                         !.currentBatchCount = IF res = cur THEN 1 ELSE @ + 1,
                         !.totalGenerated = @ + 1]
                 /\ res # cur =>
                      apiTokens'[cur] = [apiTokens[cur] EXCEPT !.currentBatchCount = 0]
                 /\ lastUsedTokenIndex' = tx[x].nextIndex
                 /\ lruOrder' = Touch(lruOrder, res)]_vars


\* the job was enqueued, its row is gone and nothing holds it any more: it is
\* not queued, not in the batch being processed, not awaiting a retry timer
\* and no processSingleVideo runs for it
Dropped(j) ==
  /\ delayOverride[j] # NotEnqueued
  /\ ~videoHistory[j].exists
  /\ sv[j].pc \in {"end", "none"}
  /\ j \notin retryTimers
  /\ \A i \in 1..Len(bulkQueue) : bulkQueue[i] # j
  /\ \A i \in 1..Len(pq.batch) : pq.batch[i] # j

\* C39: when handleVideoFailure finds no row for the job, it re-enqueues
\* nothing, starts no retry timer, writes no row and records no token error,
\* and from then on the job is never submitted again.
C39_PurgedJobIsDropped ==
  [][\A j \in Jobs :
       /\ (sv[j].pc = "failRead" /\ ~videoHistory[j].exists /\ sv'[j] # sv[j]) =>
            /\ sv'[j].pc = "end"
            /\ Dropped(j)'
            /\ videoHistory' = videoHistory
            /\ bulkQueue' = bulkQueue
            /\ retryTimers' = retryTimers
            /\ tokenErrorTracking' = tokenErrorTracking
            /\ tokenCooldowns' = tokenCooldowns
            /\ errorCalls' = errorCalls
       /\ (Dropped(j) /\ sv[j].videoRecord = Undefined) =>
            /\ Dropped(j)'
            /\ sv'[j].pc \in {"end", "none"}
            /\ sv'[j].pc = "end" => sv'[j].videoRecord = Undefined
            /\ submitAttempts'[j] = submitAttempts[j]]_vars

\* the second attempt of job 1, made with a rotation token after the purge of
\* its row, failed: handleVideoFailure found no row and returned; the only
\* token error recorded is that of the first attempt
C39_SecondAttemptAfterPurge ==
  /\ sv[1].pc = "end"
  /\ sv[1].videoRecord = Undefined
  /\ sv[1].rotationToken # None
  /\ submitAttempts[1] = 2
  /\ errorCalls = 1
  /\ Dropped(1)

====
